---- MODULE Spec2Model ----
(***************************************************************************)
(* Model of the ea-agent scheduling assistant: the thread store            *)
(* (db/index.ts), the tool dispatcher and agent loop (agent.ts), the       *)
(* webhook (index.ts) and the availability engine (tools/calendar.ts).     *)
(***************************************************************************)
EXTENDS Integers, Sequences, FiniteSets, TLC

VARIABLES threads, runs, cal, calls, hist, lastOp, av, clock, prefStore, agent

vars == <<threads, runs, cal, calls, hist, lastOp, av, clock, prefStore, agent>>

----------------------------------------------------------------------------
(* Bounds of the model *)

MaxCalls == 2
MaxEvents == 2

----------------------------------------------------------------------------
(* JavaScript / SQL value helpers.  A nullable value is <<>> (null or      *)
(* undefined) or <<v>>.                                                    *)

None == <<>>

Some(v) == <<v>>

\* JS `a ?? b` : b exactly when a is null or undefined
NullishOr(a, b) == IF a = None THEN b ELSE a

\* SQL COALESCE(a, b)
COALESCE(a, b) == IF a = None THEN b ELSE a

\* JS truthiness of a nullable string: null, undefined and "" are falsy
TruthyStr(a) == a # None /\ a[1] # ""

\* JSON.stringify of a TimeSlot[] / JSON.parse of the stored text
JSONstringify(slots) == <<"json", slots>>

JSONparse(text) == text[2]

----------------------------------------------------------------------------
(* Preference store: table `preferences` (key TEXT PRIMARY KEY, value TEXT  *)
(* NOT NULL) as a function from key to the stored text or None, and        *)
(* whether this process has opened the database (_db is set).              *)

\* The keys of DEFAULT_PREFERENCES
PrefKeys ==
  {"workingHoursStart", "workingHoursEnd", "timezone",
   "defaultMeetingDurationMinutes", "bufferBeforeMinutes",
   "bufferAfterMinutes", "preferredPlatform", "maxMeetingsPerDay",
   "noMeetingDays", "customRules"}

DEFAULT_PREFERENCES ==
  [k \in PrefKeys |->
     CASE k = "workingHoursStart" -> "09:00"
       [] k = "workingHoursEnd" -> "18:00"
       [] k = "timezone" -> "America/Los_Angeles"
       [] k = "defaultMeetingDurationMinutes" -> "30"
       [] k = "bufferBeforeMinutes" -> "5"
       [] k = "bufferAfterMinutes" -> "5"
       [] k = "preferredPlatform" -> "Google Meet"
       [] k = "maxMeetingsPerDay" -> "6"
       [] k = "noMeetingDays" -> "[0,6]"
       [] k = "customRules" -> ""]

\* The database file before its first use
NewDb == [db |-> [k \in PrefKeys |-> None], open |-> FALSE]

\* Mutant: seeding replaces what is stored (INSERT OR REPLACE)
seedDefaultPreferences_Replace(db) ==
  [k \in PrefKeys |-> Some(DEFAULT_PREFERENCES[k])]

\* INSERT OR IGNORE INTO preferences (key, value), for every default
seedDefaultPreferences(db) ==
  [k \in PrefKeys |-> IF db[k] = None THEN Some(DEFAULT_PREFERENCES[k])
                      ELSE db[k]]

\* INSERT OR REPLACE INTO preferences (key, value)
setPreference(db, key, value) ==
  [k \in DOMAIN db \cup {key} |-> IF k = key THEN Some(value) ELSE db[k]]

\* Typed values of a Preferences structure
Str(s) == [t |-> "string", v |-> s]

Num(n) == [t |-> "number", v |-> n]

NaN == [t |-> "NaN"]

List(l) == [t |-> "list", v |-> l]

\* Number(text), on the texts that occur as stored values
Number(text) ==
  CASE text = "45" -> Num(45)
    [] text = "-5" -> Num(0 - 5)
    [] text = "30" -> Num(30)
    [] text = "5" -> Num(5)
    [] text = "6" -> Num(6)
    [] text = "" -> Num(0)
    [] OTHER -> NaN

\* JSON.parse(text), on the texts that occur as stored values: None when it
\* throws a SyntaxError
JSONparseText(text) ==
  CASE text = "[0,6]" -> Some(List(<<0, 6>>))
    [] text = "[1]" -> Some(List(<<1>>))
    [] text = "45" -> Some(Num(45))
    [] text = "-5" -> Some(Num(0 - 5))
    [] text = "30" -> Some(Num(30))
    [] text = "5" -> Some(Num(5))
    [] text = "6" -> Some(Num(6))
    [] OTHER -> None

\* The minutes of the day of an "HH:MM" text (split(":").map(Number)), on
\* the texts that occur as stored values; None when a part is not a number
TimeOfDay(text) ==
  CASE text = "08:00" -> Some(8 * 60)
    [] text = "09:00" -> Some(9 * 60)
    [] text = "18:00" -> Some(18 * 60)
    [] text = "19:00" -> Some(19 * 60)
    [] OTHER -> None

NumericKeys ==
  {"defaultMeetingDurationMinutes", "bufferBeforeMinutes",
   "bufferAfterMinutes", "maxMeetingsPerDay"}

\* getPreferences: map.key ?? default, Number(...) for the numeric keys and
\* JSON.parse(...) for noMeetingDays, which can throw
getPreferences(db) ==
  LET text(k) == IF k \in DOMAIN db /\ db[k] # None THEN db[k][1]
                 ELSE DEFAULT_PREFERENCES[k]
  IN IF JSONparseText(text("noMeetingDays")) = None
     THEN [threw |-> TRUE, fields |-> <<>>]
     ELSE [threw |-> FALSE,
           fields |->
             [k \in PrefKeys |->
                CASE k \in NumericKeys -> Number(text(k))
                  [] k = "noMeetingDays" -> JSONparseText(text(k))[1]
                  [] OTHER -> Str(text(k))]]

toolGetPreferences(db) == getPreferences(db)

validKeys ==
  {"workingHoursStart", "workingHoursEnd", "timezone",
   "defaultMeetingDurationMinutes", "bufferBeforeMinutes",
   "bufferAfterMinutes", "preferredPlatform", "maxMeetingsPerDay",
   "noMeetingDays"}

\* Mutant: every key is written
toolSetPreference_AnyKey(db, key, value) ==
  [success |-> TRUE, db |-> setPreference(db, key, value)]

\* toolSetPreference: an unknown key throws before anything is written
toolSetPreference(db, key, value) ==
  IF key \notin validKeys THEN [success |-> FALSE, db |-> db]
  ELSE [success |-> TRUE, db |-> setPreference(db, key, value)]

----------------------------------------------------------------------------
(* Thread store: the rows of table `threads`, in insertion order.  clock   *)
(* is datetime('now'), in seconds; the runs of Spec take place within one  *)
(* second.                                                                 *)

ThreadIds == {"t1", "t2"}

ThreadState == {"new", "awaiting_confirmation", "booked", "cancelled"}

RowOf(tbl, threadId) ==
  LET idx == {i \in 1..Len(tbl) : tbl[i].thread_id = threadId}
  IN IF idx = {} THEN None
     ELSE Some(tbl[CHOOSE i \in idx : \A j \in idx : i <= j])

rowToThread(row) ==
  [id |-> row.id,
   threadId |-> row.thread_id,
   state |-> row.state,
   proposedSlots |-> IF row.proposed_slots # None
                     THEN Some(JSONparse(row.proposed_slots[1])) ELSE None,
   requesterEmail |-> row.requester_email,
   requesterName |-> row.requester_name,
   attendeeEmail |-> row.attendee_email,
   meetingTitle |-> row.meeting_title,
   meetingDurationMinutes |-> row.meeting_duration_minutes,
   calendarEventId |-> row.calendar_event_id,
   createdAt |-> row.created_at,
   updatedAt |-> row.updated_at]

getThread(tbl, threadId) ==
  LET row == RowOf(tbl, threadId)
  IN IF row # None THEN Some(rowToThread(row[1])) ELSE None

\* The parameter object of upsertThread with every optional field omitted
Params(threadId, state) ==
  [threadId |-> threadId, state |-> state,
   requesterEmail |-> None, requesterName |-> None, attendeeEmail |-> None,
   meetingTitle |-> None, meetingDurationMinutes |-> None,
   proposedSlots |-> None, calendarEventId |-> None]

\* The values bound to the INSERT statement (the `excluded` row)
Excluded(tbl, p) ==
  [id |-> Len(tbl) + 1,
   thread_id |-> p.threadId,
   state |-> p.state,
   proposed_slots |-> IF p.proposedSlots # None
                      THEN Some(JSONstringify(p.proposedSlots[1])) ELSE None,
   requester_email |-> NullishOr(p.requesterEmail, Some(""))[1],
   requester_name |-> NullishOr(p.requesterName, None),
   attendee_email |-> NullishOr(p.attendeeEmail, None),
   meeting_title |-> NullishOr(p.meetingTitle, None),
   meeting_duration_minutes |-> NullishOr(p.meetingDurationMinutes, None),
   calendar_event_id |-> NullishOr(p.calendarEventId, None),
   created_at |-> clock,
   updated_at |-> clock]

\* Mutant: the stored attendee wins over the supplied one
OnConflict_KeepAttendee(row, ex) ==
  [row EXCEPT
     !.state = ex.state,
     !.requester_name = COALESCE(ex.requester_name, row.requester_name),
     !.attendee_email = COALESCE(row.attendee_email, ex.attendee_email),
     !.meeting_title = COALESCE(ex.meeting_title, row.meeting_title),
     !.meeting_duration_minutes =
         COALESCE(ex.meeting_duration_minutes, row.meeting_duration_minutes),
     !.proposed_slots = ex.proposed_slots,
     !.calendar_event_id = COALESCE(ex.calendar_event_id, row.calendar_event_id),
     !.updated_at = ex.updated_at]

\* Mutant: the meeting title is overwritten like state
OnConflict_OverwriteTitle(row, ex) ==
  [row EXCEPT
     !.state = ex.state,
     !.requester_name = COALESCE(ex.requester_name, row.requester_name),
     !.attendee_email = COALESCE(ex.attendee_email, row.attendee_email),
     !.meeting_title = ex.meeting_title,
     !.meeting_duration_minutes =
         COALESCE(ex.meeting_duration_minutes, row.meeting_duration_minutes),
     !.proposed_slots = ex.proposed_slots,
     !.calendar_event_id = COALESCE(ex.calendar_event_id, row.calendar_event_id),
     !.updated_at = ex.updated_at]

\* Mutant: proposed slots are merged like the identity fields
OnConflict_KeepSlots(row, ex) ==
  [row EXCEPT
     !.state = ex.state,
     !.requester_name = COALESCE(ex.requester_name, row.requester_name),
     !.attendee_email = COALESCE(ex.attendee_email, row.attendee_email),
     !.meeting_title = COALESCE(ex.meeting_title, row.meeting_title),
     !.meeting_duration_minutes =
         COALESCE(ex.meeting_duration_minutes, row.meeting_duration_minutes),
     !.proposed_slots = COALESCE(ex.proposed_slots, row.proposed_slots),
     !.calendar_event_id = COALESCE(ex.calendar_event_id, row.calendar_event_id),
     !.updated_at = ex.updated_at]

\* Mutant: every column takes the bound value, without COALESCE
OnConflict_NoCoalesce(row, ex) ==
  [row EXCEPT
     !.state = ex.state,
     !.requester_name = ex.requester_name,
     !.attendee_email = ex.attendee_email,
     !.meeting_title = ex.meeting_title,
     !.meeting_duration_minutes = ex.meeting_duration_minutes,
     !.proposed_slots = ex.proposed_slots,
     !.calendar_event_id = ex.calendar_event_id,
     !.updated_at = ex.updated_at]

\* Mutant: ON CONFLICT DO NOTHING, the first write of a conversation wins
OnConflict_FirstWriterWins(row, ex) == row

\* ON CONFLICT(thread_id) DO UPDATE SET ...
OnConflict(row, ex) ==
  [row EXCEPT
     !.state = ex.state,
     !.requester_name = COALESCE(ex.requester_name, row.requester_name),
     !.attendee_email = COALESCE(ex.attendee_email, row.attendee_email),
     !.meeting_title = COALESCE(ex.meeting_title, row.meeting_title),
     !.meeting_duration_minutes =
         COALESCE(ex.meeting_duration_minutes, row.meeting_duration_minutes),
     !.proposed_slots = ex.proposed_slots,
     !.calendar_event_id = COALESCE(ex.calendar_event_id, row.calendar_event_id),
     !.updated_at = ex.updated_at]

\* Mutant: a plain INSERT, without the ON CONFLICT clause or the UNIQUE column
upsertThread_AlwaysInsert(tbl, p) == Append(tbl, Excluded(tbl, p))

\* The table after upsertThread(p)
upsertThread(tbl, p) ==
  LET ex == Excluded(tbl, p)
  IN IF \E i \in 1..Len(tbl) : tbl[i].thread_id = p.threadId
     THEN [i \in 1..Len(tbl) |->
             IF tbl[i].thread_id = p.threadId THEN OnConflict(tbl[i], ex)
             ELSE tbl[i]]
     ELSE Append(tbl, ex)

\* WHERE attendee_email = ? AND state = 'booked' AND calendar_event_id IS NOT NULL
BookedFor(tbl, attendeeEmail) ==
  {i \in 1..Len(tbl) :
     /\ tbl[i].attendee_email = Some(attendeeEmail)
     /\ tbl[i].state = "booked"
     /\ tbl[i].calendar_event_id # None}

\* Mutant: the ORDER BY clause is dropped
findBookedByAttendee_Unordered(tbl, attendeeEmail) ==
  IF BookedFor(tbl, attendeeEmail) = {} THEN {None}
  ELSE {Some(rowToThread(tbl[i])) : i \in BookedFor(tbl, attendeeEmail)}

\* The results findBookedByAttendee can return: ORDER BY updated_at DESC
\* LIMIT 1 leaves the choice among rows of equal updated_at to the engine
findBookedByAttendee(tbl, attendeeEmail) ==
  IF BookedFor(tbl, attendeeEmail) = {} THEN {None}
  ELSE {Some(rowToThread(tbl[i])) :
          i \in {j \in BookedFor(tbl, attendeeEmail) :
                   \A k \in BookedFor(tbl, attendeeEmail) :
                      tbl[k].updated_at <= tbl[j].updated_at}}

toolFindBookedByAttendee(tbl, attendeeEmail) ==
  findBookedByAttendee(tbl, attendeeEmail)

toolGetThread(tbl, threadId) == getThread(tbl, threadId)

toolUpdateThreadState(tbl, p) == upsertThread(tbl, p)

----------------------------------------------------------------------------
(* Google Calendar, seen from the tools.  cal.created lists the events the *)
(* create call has inserted (with the conversation that asked for them),   *)
(* cal.cancelled the event ids a cancel call has succeeded on.             *)

\* Ids handed out by events.insert, in order
GIds == <<"g1", "g2", "g3", "g4">>

\* Event ids the reasoning loop may pass: none, the empty string, the id of an
\* event of another calendar user, or an id that list_events shows
ListedIds(c) == {c.created[i].id : i \in 1..Len(c.created)}

ExistingEventIdInputs(c) ==
  {None, Some(""), Some("x9")} \cup {Some(e) : e \in ListedIds(c)}

CancelEventIdInputs(c) == {"x9"} \cup ListedIds(c)

AttendeeInputs == {"ann@x.org", "bob@x.org"}

SlotInputs == {None, Some(<<"s1">>)}

AgentEmail == "ea@agentmail.to"

FromInputs ==
  {[email |-> "req@x.org", name |-> Some("Req")],
   [email |-> "EA@agentmail.to", name |-> None],
   [email |-> "x-ea@agentmail.to", name |-> None]}

\* String.prototype.toLowerCase on the addresses of the model
toLowerCase(s) == IF s = "EA@agentmail.to" THEN "ea@agentmail.to" ELSE s

\* String.prototype.includes on the addresses of the model
includes(s, sub) == s = sub \/ (s = "x-ea@agentmail.to" /\ sub = "ea@agentmail.to")

EventTypeInputs == {"message.received", "message.sent"}

toolCancelCalendarEvent(c, eventId) ==
  [c EXCEPT !.cancelled = @ \cup {eventId}]

CreatedFor(c, tid) == {i \in 1..Len(c.created) : c.created[i].tid = tid}

----------------------------------------------------------------------------
(* Agent runs.  pc is the await the run is suspended on.  The other fields  *)
(* describe the book_meeting or cancel_meeting call in progress: xin the   *)
(* existingEventId argument, cand the candidate event id, att the          *)
(* attendeeEmail argument, snap the thread row when the call began, intf   *)
(* whether another run wrote that row since, nUpd and nCre how often the   *)
(* update and the create call were made, updFailed whether the update      *)
(* call was rejected.                                                      *)
(* hist.acked is the set of runs whose inbound event was acknowledged,     *)
(* hist.confirmed the event ids an update call succeeded on or a create    *)
(* call returned,                                                          *)
(* hist.updFailed is the set of conversations one of whose update calls    *)
(* was rejected, hist.overlap the set of conversations that had two        *)
(* book_meeting calls in progress at once.                                 *)

Runs == {1, 2}

NoRes == [kind |-> "none", eventId |-> ""]

IdleRun ==
  [pc |-> "idle", tid |-> "t1", xin |-> None, cand |-> None, att |-> "",
   snap |-> None, intf |-> FALSE, nUpd |-> 0, nCre |-> 0, updFailed |-> FALSE]

\* The run back in the agent loop, its tool call over
Back(run) == [IdleRun EXCEPT !.pc = "loop", !.tid = run.tid]

InBook(run) == run.pc \in {"await_update", "await_create"}

\* Run r wrote thread t: other runs in the middle of book_meeting on t note it
Wrote(rs, r, t) ==
  [q \in Runs |->
     IF q # r /\ rs[q].tid = t /\ InBook(rs[q])
     THEN [rs[q] EXCEPT !.intf = TRUE] ELSE rs[q]]

\* What the last step did: the operation, the run, its result, and the call's
\* record when the step ended a tool call
Op(op, r, res, call) == [op |-> op, run |-> r, res |-> res, call |-> call]

\* The names of tool_use blocks: three tools of TOOLS and a name that is
\* none of them
ToolNameInputs ==
  {"update_thread_state", "book_meeting", "cancel_meeting", "no_such_tool"}

\* The preference table of the running process: the seeded defaults, or
\* those with a noMeetingDays text that set_preference stored earlier
PrefStoreInputs ==
  {[db |-> seedDefaultPreferences(NewDb.db), open |-> TRUE],
   [db |-> setPreference(seedDefaultPreferences(NewDb.db),
                         "noMeetingDays", "dinner at 6pm"),
    open |-> TRUE]}

\* const prefs = toolGetPreferences(), the first statement of executeTool
PrefsReadable == ~toolGetPreferences(prefStore.db).threw

\* No agent-loop conversation is followed: the runs above abstract the loop
\* to one tool call per step
NoAgent ==
  [pc |-> "idle", messages |-> <<>>, stops |-> <<>>, i |-> 0, toolResults |-> <<>>]

Init ==
  /\ threads = <<>>
  /\ runs = [r \in Runs |-> IdleRun]
  /\ cal = [created |-> <<>>, cancelled |-> {}]
  /\ calls = 0
  /\ hist = [updFailed |-> {}, overlap |-> {}, acked |-> {}, confirmed |-> {}]
  /\ lastOp = Op("init", 0, NoRes, IdleRun)
  /\ av = <<>>
  /\ clock = 0
  /\ prefStore \in PrefStoreInputs
  /\ agent = NoAgent

\* Mutant: the handler awaits runAgent and acknowledges after it
Webhook_AwaitsRun(r, eventType, from, tid) ==
  /\ runs[r].pc = "idle"
  /\ \A q \in Runs : q < r => runs[q].pc # "idle"
  /\ IF eventType # "message.received"
     THEN /\ lastOp' = Op("webhook_skipped", r, NoRes, IdleRun) @@
                      [eventType |-> eventType, from |-> from, tid |-> tid]
          /\ UNCHANGED <<threads, runs, hist>>
     ELSE IF includes(toLowerCase(from.email), toLowerCase(AgentEmail))
     THEN /\ lastOp' = Op("webhook_skipped", r, NoRes, IdleRun) @@
                      [eventType |-> eventType, from |-> from, tid |-> tid]
          /\ UNCHANGED <<threads, runs, hist>>
     ELSE /\ threads' =
               IF getThread(threads, tid) = None
               THEN upsertThread(threads,
                      [Params(tid, "new") EXCEPT
                         !.requesterEmail = Some(from.email),
                         !.requesterName = NullishOr(from.name, None)])
               ELSE threads
          /\ runs' = [runs EXCEPT ![r] = [IdleRun EXCEPT !.pc = "loop", !.tid = tid]]
          /\ UNCHANGED hist
          /\ lastOp' = Op("webhook_ok", r, NoRes, IdleRun) @@
                      [eventType |-> eventType, from |-> from, tid |-> tid]
  /\ UNCHANGED <<cal, calls, av, clock, prefStore, agent>>

\* Mutant: the handler upserts the thread whether or not it exists
Webhook_AlwaysUpserts(r, eventType, from, tid) ==
  /\ runs[r].pc = "idle"
  /\ \A q \in Runs : q < r => runs[q].pc # "idle"
  /\ IF eventType # "message.received"
     THEN /\ lastOp' = Op("webhook_skipped", r, NoRes, IdleRun) @@
                      [eventType |-> eventType, from |-> from, tid |-> tid]
          /\ UNCHANGED <<threads, runs, hist>>
     ELSE IF includes(toLowerCase(from.email), toLowerCase(AgentEmail))
     THEN /\ lastOp' = Op("webhook_skipped", r, NoRes, IdleRun) @@
                      [eventType |-> eventType, from |-> from, tid |-> tid]
          /\ UNCHANGED <<threads, runs, hist>>
     ELSE /\ threads' =
               upsertThread(threads,
                 [Params(tid, "new") EXCEPT
                    !.requesterEmail = Some(from.email),
                    !.requesterName = NullishOr(from.name, None)])
          /\ runs' = [runs EXCEPT ![r] = [IdleRun EXCEPT !.pc = "loop", !.tid = tid]]
          /\ hist' = [hist EXCEPT !.acked = @ \cup {r}]
          /\ lastOp' = Op("webhook_ok", r, NoRes, IdleRun) @@
                      [eventType |-> eventType, from |-> from, tid |-> tid]
  /\ UNCHANGED <<cal, calls, av, clock, prefStore, agent>>

\* Mutant: mail sent by the agent itself is processed like any other
Webhook_NoSelfCheck(r, eventType, from, tid) ==
  /\ runs[r].pc = "idle"
  /\ \A q \in Runs : q < r => runs[q].pc # "idle"
  /\ IF eventType # "message.received"
     THEN /\ lastOp' = Op("webhook_skipped", r, NoRes, IdleRun) @@
                      [eventType |-> eventType, from |-> from, tid |-> tid]
          /\ UNCHANGED <<threads, runs, hist>>
     ELSE IF FALSE
     THEN /\ lastOp' = Op("webhook_skipped", r, NoRes, IdleRun) @@
                      [eventType |-> eventType, from |-> from, tid |-> tid]
          /\ UNCHANGED <<threads, runs, hist>>
     ELSE /\ threads' =
               IF getThread(threads, tid) = None
               THEN upsertThread(threads,
                      [Params(tid, "new") EXCEPT
                         !.requesterEmail = Some(from.email),
                         !.requesterName = NullishOr(from.name, None)])
               ELSE threads
          /\ runs' = [runs EXCEPT ![r] = [IdleRun EXCEPT !.pc = "loop", !.tid = tid]]
          /\ hist' = [hist EXCEPT !.acked = @ \cup {r}]
          /\ lastOp' = Op("webhook_ok", r, NoRes, IdleRun) @@
                      [eventType |-> eventType, from |-> from, tid |-> tid]
  /\ UNCHANGED <<cal, calls, av, clock, prefStore, agent>>

\* POST /webhook/email: the handler runs without an await, it sends the
\* acknowledgement and then calls runAgent, which it does not await
Webhook(r, eventType, from, tid) ==
  /\ runs[r].pc = "idle"
  /\ \A q \in Runs : q < r => runs[q].pc # "idle"
  /\ IF eventType # "message.received"
     THEN /\ lastOp' = Op("webhook_skipped", r, NoRes, IdleRun) @@
                      [eventType |-> eventType, from |-> from, tid |-> tid]
          /\ UNCHANGED <<threads, runs, hist>>
     ELSE IF includes(toLowerCase(from.email), toLowerCase(AgentEmail))
     THEN /\ lastOp' = Op("webhook_skipped", r, NoRes, IdleRun) @@
                      [eventType |-> eventType, from |-> from, tid |-> tid]
          /\ UNCHANGED <<threads, runs, hist>>
     ELSE /\ threads' =
               IF getThread(threads, tid) = None
               THEN upsertThread(threads,
                      [Params(tid, "new") EXCEPT
                         !.requesterEmail = Some(from.email),
                         !.requesterName = NullishOr(from.name, None)])
               ELSE threads
          /\ runs' = [runs EXCEPT ![r] = [IdleRun EXCEPT !.pc = "loop", !.tid = tid]]
          /\ hist' = [hist EXCEPT !.acked = @ \cup {r}]
          /\ lastOp' = Op("webhook_ok", r, NoRes, IdleRun) @@
                      [eventType |-> eventType, from |-> from, tid |-> tid]
  /\ UNCHANGED <<cal, calls, av, clock, prefStore, agent>>

\* runAgent: the model answers with stop_reason end_turn (or an unexpected one)
RunEnd(r) ==
  /\ runs[r].pc = "loop"
  /\ runs' = [runs EXCEPT ![r] = [IdleRun EXCEPT !.pc = "ended"]]
  /\ lastOp' = Op("run_end", r, NoRes, IdleRun)
  /\ UNCHANGED <<threads, cal, calls, hist, av, clock, prefStore, agent>>

\* executeTool, case "update_thread_state"
UpdateThreadState(r, state, slots) ==
  /\ runs[r].pc = "loop"
  /\ calls < MaxCalls
  /\ PrefsReadable
  /\ calls' = calls + 1
  /\ threads' = toolUpdateThreadState(threads,
                  [Params(runs[r].tid, state) EXCEPT !.proposedSlots = slots])
  /\ runs' = Wrote(runs, r, runs[r].tid)
  /\ lastOp' = Op("update_thread_state", r, NoRes, IdleRun) @@
                [p |-> [Params(runs[r].tid, state) EXCEPT
                          !.proposedSlots = slots]]
  /\ UNCHANGED <<cal, hist, av, clock, prefStore, agent>>

\* The start and end arguments of book_meeting, as instants: a slot with
\* start before end, one with start equal to end, one with start after end
BookSlotInputs ==
  {[start |-> 1, end |-> 2], [start |-> 2, end |-> 2], [start |-> 2, end |-> 1]}

\* The thread write that ends a successful book_meeting, and its return
BookReturn(r, eventId, op) ==
  /\ threads' = toolUpdateThreadState(threads,
                  [Params(runs[r].tid, "booked") EXCEPT
                     !.calendarEventId = Some(eventId),
                     !.attendeeEmail = Some(runs[r].att)])
  /\ runs' = [Wrote(runs, r, runs[r].tid) EXCEPT ![r] = Back(runs[r])]
  /\ lastOp' = Op(op, r, [kind |-> "booking", eventId |-> eventId], runs[r])

\* Mutant: the stored reference is preferred to the supplied one
BookStart_StoredFirst(r, existingEventIdInput, attendeeEmail, slot) ==
  /\ runs[r].pc = "loop"
  /\ calls < MaxCalls
  /\ PrefsReadable
  /\ calls' = calls + 1
  /\ LET existingThread == toolGetThread(threads, runs[r].tid)
         existingEventId ==
           NullishOr(IF existingThread = None THEN None
                     ELSE existingThread[1].calendarEventId,
                     existingEventIdInput)
     IN runs' = [runs EXCEPT ![r] =
                   [@ EXCEPT !.xin = existingEventIdInput,
                             !.cand = existingEventId,
                             !.att = attendeeEmail,
                             !.snap = RowOf(threads, runs[r].tid),
                             !.intf = FALSE,
                             !.pc = IF TruthyStr(existingEventId)
                                    THEN "await_update" ELSE "await_create",
                             !.nUpd = IF TruthyStr(existingEventId) THEN 1 ELSE 0,
                             !.nCre = IF TruthyStr(existingEventId) THEN 0 ELSE 1]]
  /\ hist' = IF \E q \in Runs : q # r /\ runs[q].tid = runs[r].tid /\ InBook(runs[q])
             THEN [hist EXCEPT !.overlap = @ \cup {runs[r].tid}] ELSE hist
  /\ lastOp' = Op("book_start", r, NoRes, IdleRun) @@ [slot |-> slot]
  /\ UNCHANGED <<threads, cal, av, clock, prefStore, agent>>

\* executeTool, case "book_meeting", up to its first await
BookStart(r, existingEventIdInput, attendeeEmail, slot) ==
  /\ runs[r].pc = "loop"
  /\ calls < MaxCalls
  /\ PrefsReadable
  /\ calls' = calls + 1
  /\ LET existingThread == toolGetThread(threads, runs[r].tid)
         existingEventId ==
           NullishOr(existingEventIdInput,
                     IF existingThread = None THEN None
                     ELSE existingThread[1].calendarEventId)
     IN runs' = [runs EXCEPT ![r] =
                   [@ EXCEPT !.xin = existingEventIdInput,
                             !.cand = existingEventId,
                             !.att = attendeeEmail,
                             !.snap = RowOf(threads, runs[r].tid),
                             !.intf = FALSE,
                             !.pc = IF TruthyStr(existingEventId)
                                    THEN "await_update" ELSE "await_create",
                             !.nUpd = IF TruthyStr(existingEventId) THEN 1 ELSE 0,
                             !.nCre = IF TruthyStr(existingEventId) THEN 0 ELSE 1]]
  /\ hist' = IF \E q \in Runs : q # r /\ runs[q].tid = runs[r].tid /\ InBook(runs[q])
             THEN [hist EXCEPT !.overlap = @ \cup {runs[r].tid}] ELSE hist
  /\ lastOp' = Op("book_start", r, NoRes, IdleRun) @@ [slot |-> slot]
  /\ UNCHANGED <<threads, cal, av, clock, prefStore, agent>>

\* toolUpdateCalendarEvent resolves
UpdateOk(r) ==
  /\ runs[r].pc = "await_update"
  /\ BookReturn(r, runs[r].cand[1], "book_updated")
  /\ hist' = [hist EXCEPT !.confirmed = @ \cup {runs[r].cand[1]}]
  /\ UNCHANGED <<cal, calls, av, clock, prefStore, agent>>

\* Mutant: the rejection of the update is swallowed and the candidate is
\* returned and stored as the booking
UpdateFail_Swallowed(r) ==
  /\ runs[r].pc = "await_update"
  /\ BookReturn(r, runs[r].cand[1], "book_updated")
  /\ hist' = [hist EXCEPT !.updFailed = @ \cup {runs[r].tid}]
  /\ UNCHANGED <<cal, calls, av, clock, prefStore, agent>>

\* Mutant: a rejected update is tried once more before the fallback
UpdateFail_Retries(r) ==
  /\ runs[r].pc = "await_update"
  /\ runs' = IF runs[r].nUpd < 2
             THEN [runs EXCEPT ![r].nUpd = @ + 1]
             ELSE [runs EXCEPT ![r].pc = "await_create", ![r].nCre = @ + 1,
                               ![r].updFailed = TRUE]
  /\ hist' = [hist EXCEPT !.updFailed = @ \cup {runs[r].tid}]
  /\ lastOp' = Op("book_update_failed", r, NoRes, IdleRun)
  /\ UNCHANGED <<threads, cal, calls, av, clock, prefStore, agent>>

\* toolUpdateCalendarEvent rejects: the catch block calls toolCreateCalendarEvent
UpdateFail(r) ==
  /\ runs[r].pc = "await_update"
  /\ runs' = [runs EXCEPT ![r].pc = "await_create", ![r].nCre = @ + 1,
                          ![r].updFailed = TRUE]
  /\ hist' = [hist EXCEPT !.updFailed = @ \cup {runs[r].tid}]
  /\ lastOp' = Op("book_update_failed", r, NoRes, IdleRun)
  /\ UNCHANGED <<threads, cal, calls, av, clock, prefStore, agent>>

\* Mutant: after the fallback the booking keeps the candidate's id
CreateOk_KeepsStale(r) ==
  /\ runs[r].pc = "await_create"
  /\ Len(cal.created) < MaxEvents
  /\ LET eventId == GIds[Len(cal.created) + 1]
     IN /\ cal' = [cal EXCEPT !.created =
                     Append(@, [id |-> eventId, tid |-> runs[r].tid])]
        /\ BookReturn(r, IF TruthyStr(runs[r].cand) THEN runs[r].cand[1]
                         ELSE eventId, "book_created")
        /\ hist' = [hist EXCEPT !.confirmed = @ \cup {eventId}]
  /\ UNCHANGED <<calls, av, clock, prefStore, agent>>

\* toolCreateCalendarEvent resolves with the inserted event
CreateOk(r) ==
  /\ runs[r].pc = "await_create"
  /\ Len(cal.created) < MaxEvents
  /\ LET eventId == GIds[Len(cal.created) + 1]
     IN /\ cal' = [cal EXCEPT !.created =
                     Append(@, [id |-> eventId, tid |-> runs[r].tid])]
        /\ BookReturn(r, eventId, "book_created")
        /\ hist' = [hist EXCEPT !.confirmed = @ \cup {eventId}]
  /\ UNCHANGED <<calls, av, clock, prefStore, agent>>

\* Mutant: the thread is marked booked although the create call failed
CreateFail_MarksBooked(r) ==
  /\ runs[r].pc = "await_create"
  /\ threads' = toolUpdateThreadState(threads, Params(runs[r].tid, "booked"))
  /\ runs' = [Wrote(runs, r, runs[r].tid) EXCEPT ![r] = Back(runs[r])]
  /\ lastOp' = Op("book_failed", r, [kind |-> "error", eventId |-> ""], runs[r])
  /\ UNCHANGED <<cal, calls, hist, av, clock, prefStore, agent>>

\* toolCreateCalendarEvent rejects: executeTool throws, runAgent records the error
CreateFail(r) ==
  /\ runs[r].pc = "await_create"
  /\ runs' = [runs EXCEPT ![r] = Back(runs[r])]
  /\ lastOp' = Op("book_failed", r, [kind |-> "error", eventId |-> ""], runs[r])
  /\ UNCHANGED <<threads, cal, calls, hist, av, clock, prefStore, agent>>

\* executeTool throws before it calls a tool: the preferences cannot be
\* read, or the name is none of the switch (default branch); runAgent
\* records the error as the tool's result
ToolThrows(r, toolName) ==
  /\ runs[r].pc = "loop"
  /\ calls < MaxCalls
  /\ ~PrefsReadable \/ toolName = "no_such_tool"
  /\ calls' = calls + 1
  /\ lastOp' = Op("tool_error", r, [kind |-> "error", eventId |-> ""], IdleRun) @@
                [tool |-> toolName]
  /\ UNCHANGED <<threads, runs, cal, hist, av, clock, prefStore, agent>>

\* executeTool, case "cancel_meeting", up to its await
CancelStart(r, eventId) ==
  /\ runs[r].pc = "loop"
  /\ calls < MaxCalls
  /\ PrefsReadable
  /\ calls' = calls + 1
  /\ runs' = [runs EXCEPT ![r].pc = "await_cancel", ![r].cand = Some(eventId)]
  /\ lastOp' = Op("cancel_start", r, NoRes, IdleRun)
  /\ UNCHANGED <<threads, cal, hist, av, clock, prefStore, agent>>

\* toolCancelCalendarEvent resolves
CancelOk(r) ==
  /\ runs[r].pc = "await_cancel"
  /\ cal' = toolCancelCalendarEvent(cal, runs[r].cand[1])
  /\ runs' = [runs EXCEPT ![r] = Back(runs[r])]
  /\ lastOp' = Op("cancel_ok", r,
                  [kind |-> "cancelled", eventId |-> runs[r].cand[1]], runs[r])
  /\ UNCHANGED <<threads, calls, hist, av, clock, prefStore, agent>>

\* toolCancelCalendarEvent rejects
CancelFail(r) ==
  /\ runs[r].pc = "await_cancel"
  /\ runs' = [runs EXCEPT ![r] = Back(runs[r])]
  /\ lastOp' = Op("cancel_failed", r, [kind |-> "error", eventId |-> ""], runs[r])
  /\ UNCHANGED <<threads, cal, calls, hist, av, clock, prefStore, agent>>

Next ==
  \/ \E r \in Runs, e \in EventTypeInputs, f \in FromInputs, t \in ThreadIds :
        Webhook(r, e, f, t)
  \/ \E r \in Runs : RunEnd(r)
  \/ \E r \in Runs, s \in ThreadState, sl \in SlotInputs :
        UpdateThreadState(r, s, sl)
  \/ \E r \in Runs, x \in ExistingEventIdInputs(cal), a \in AttendeeInputs,
        sl \in BookSlotInputs :
        BookStart(r, x, a, sl)
  \/ \E r \in Runs : UpdateOk(r)
  \/ \E r \in Runs : UpdateFail(r)
  \/ \E r \in Runs : CreateOk(r)
  \/ \E r \in Runs : CreateFail(r)
  \/ \E r \in Runs, e \in CancelEventIdInputs(cal) : CancelStart(r, e)
  \/ \E r \in Runs : CancelOk(r)
  \/ \E r \in Runs : CancelFail(r)
  \/ \E r \in Runs, n \in ToolNameInputs : ToolThrows(r, n)

Spec == Init /\ [][Next]_vars

\* The executions in which the calendar create call succeeds whenever it is
\* made and the calendar calls of book_meeting return
NextLive ==
  \/ \E r \in Runs, e \in EventTypeInputs, f \in FromInputs, t \in ThreadIds :
        Webhook(r, e, f, t)
  \/ \E r \in Runs : RunEnd(r)
  \/ \E r \in Runs, s \in ThreadState, sl \in SlotInputs :
        UpdateThreadState(r, s, sl)
  \/ \E r \in Runs, x \in ExistingEventIdInputs(cal), a \in AttendeeInputs,
        sl \in BookSlotInputs :
        BookStart(r, x, a, sl)
  \/ \E r \in Runs : UpdateOk(r)
  \/ \E r \in Runs : UpdateFail(r)
  \/ \E r \in Runs : CreateOk(r)
  \/ \E r \in Runs, e \in CancelEventIdInputs(cal) : CancelStart(r, e)
  \/ \E r \in Runs : CancelOk(r)
  \/ \E r \in Runs : CancelFail(r)
  \/ \E r \in Runs, n \in ToolNameInputs : ToolThrows(r, n)

SpecLive ==
  /\ Init
  /\ [][NextLive]_vars
  /\ \A r \in Runs : /\ WF_vars(UpdateOk(r) \/ UpdateFail(r))
                     /\ WF_vars(CreateOk(r))

----------------------------------------------------------------------------
(* Availability engine.  Time is counted in minutes from local midnight of *)
(* the first day; a day is DayLen minutes long.                            *)

MaxBlocks == 2
MaxDur == 2
MsPerMinute == 60000

DayTicks == 0..3

DayLen == Cardinality(DayTicks)

\* getDay() of the days of the model: day 0 is a Friday, day 1 a Saturday
Weekdays == <<5, 6>>

getDay(day) == Weekdays[day + 1]

\* getTime() in ms of an instant given in minutes
getTime(t) == t * MsPerMinute

\* setHours(h, m, 0, 0) on the date of a day: the instant of that local time
setHours(day, hm) == day * DayLen + hm

\* Mutant: the clamped blocks are walked in input order
SortByStart_Unsorted(blocks) == blocks

\* Array.prototype.sort((a, b) => a.start - b.start): a stable sort by start
RECURSIVE SortByStart(_)
SortByStart(blocks) ==
  IF blocks = <<>> THEN <<>>
  ELSE LET rest == SortByStart(SubSeq(blocks, 1, Len(blocks) - 1))
           b == blocks[Len(blocks)]
           k == Cardinality({j \in 1..Len(rest) : rest[j].start <= b.start})
       IN SubSeq(rest, 1, k) \o <<b>> \o SubSeq(rest, k + 1, Len(rest))

\* Mutant: blocks outside the working hours are clamped too, not discarded
Blocked_NoFilter(busyBlocks, dayStart, dayEnd) ==
  LET clamped == [j \in 1..Len(busyBlocks) |->
                    [start |-> IF busyBlocks[j].start < dayStart THEN dayStart
                               ELSE busyBlocks[j].start,
                     end |-> IF busyBlocks[j].end > dayEnd THEN dayEnd
                             ELSE busyBlocks[j].end]]
  IN SortByStart(clamped)

\* The busy blocks that overlap [dayStart, dayEnd], clamped to it, by start
Blocked(busyBlocks, dayStart, dayEnd) ==
  LET overlapping == SelectSeq(busyBlocks,
                       LAMBDA b : b.start < dayEnd /\ b.end > dayStart)
      clamped == [j \in 1..Len(overlapping) |->
                    [start |-> IF overlapping[j].start < dayStart THEN dayStart
                               ELSE overlapping[j].start,
                     end |-> IF overlapping[j].end > dayEnd THEN dayEnd
                             ELSE overlapping[j].end]]
  IN SortByStart(clamped)

\* The loop over the blocked intervals, from block i on: <<windows, cursor>>
RECURSIVE WalkGaps(_, _, _, _, _)
WalkGaps(blocked, i, cursor, minWindowMs, windows) ==
  IF i > Len(blocked) THEN <<windows, cursor>>
  ELSE LET block == blocked[i]
           windowMs == getTime(block.start) - getTime(cursor)
           pushed == IF cursor < block.start /\ windowMs >= minWindowMs
                     THEN Append(windows, [start |-> cursor, end |-> block.start])
                     ELSE windows
           next == IF block.end > cursor THEN block.end ELSE cursor
       IN WalkGaps(blocked, i + 1, next, minWindowMs, pushed)

\* Mutant: the remaining time after the last block is pushed whatever its length
DayWindows_NoMin(busyBlocks, day, prefs, durationMinutes) ==
  IF getDay(day) \in prefs.noMeetingDays THEN <<>>
  ELSE LET dayStart == setHours(day, prefs.workingHoursStart)
           dayEnd == setHours(day, prefs.workingHoursEnd)
           minWindowMs == durationMinutes * 60 * 1000
           walked == WalkGaps(Blocked(busyBlocks, dayStart, dayEnd), 1, dayStart,
                              minWindowMs, <<>>)
           cursor == walked[2]
       IN IF cursor < dayEnd
          THEN Append(walked[1], [start |-> cursor, end |-> dayEnd])
          ELSE walked[1]

\* Mutant: the time after the last block is never pushed
DayWindows_NoTail(busyBlocks, day, prefs, durationMinutes) ==
  IF getDay(day) \in prefs.noMeetingDays THEN <<>>
  ELSE LET dayStart == setHours(day, prefs.workingHoursStart)
           dayEnd == setHours(day, prefs.workingHoursEnd)
           minWindowMs == durationMinutes * 60 * 1000
       IN WalkGaps(Blocked(busyBlocks, dayStart, dayEnd), 1, dayStart,
                   minWindowMs, <<>>)[1]

\* Mutant: no day is skipped
DayWindows_NoSkip(busyBlocks, day, prefs, durationMinutes) ==
  LET dayStart == setHours(day, prefs.workingHoursStart)
      dayEnd == setHours(day, prefs.workingHoursEnd)
      minWindowMs == durationMinutes * 60 * 1000
      walked == WalkGaps(Blocked(busyBlocks, dayStart, dayEnd), 1, dayStart,
                         minWindowMs, <<>>)
      cursor == walked[2]
      windowMs == getTime(dayEnd) - getTime(cursor)
  IN IF cursor < dayEnd /\ windowMs >= minWindowMs
     THEN Append(walked[1], [start |-> cursor, end |-> dayEnd])
     ELSE walked[1]

\* Mutant: each busy block is widened by the buffers before it is subtracted
DayWindows_Buffered(busyBlocks, day, prefs, durationMinutes) ==
  IF getDay(day) \in prefs.noMeetingDays THEN <<>>
  ELSE LET dayStart == setHours(day, prefs.workingHoursStart)
           dayEnd == setHours(day, prefs.workingHoursEnd)
           minWindowMs == durationMinutes * 60 * 1000
           widened == [j \in 1..Len(busyBlocks) |->
                         [start |-> busyBlocks[j].start - prefs.bufferBeforeMinutes,
                          end |-> busyBlocks[j].end + prefs.bufferAfterMinutes]]
           walked == WalkGaps(Blocked(widened, dayStart, dayEnd), 1, dayStart,
                              minWindowMs, <<>>)
           cursor == walked[2]
           windowMs == getTime(dayEnd) - getTime(cursor)
       IN IF cursor < dayEnd /\ windowMs >= minWindowMs
          THEN Append(walked[1], [start |-> cursor, end |-> dayEnd])
          ELSE walked[1]

\* Mutant: working hours given end first are put in order
DayWindows_HoursOrdered(busyBlocks, day, prefs, durationMinutes) ==
  IF getDay(day) \in prefs.noMeetingDays THEN <<>>
  ELSE LET lo == IF prefs.workingHoursStart <= prefs.workingHoursEnd
                 THEN prefs.workingHoursStart ELSE prefs.workingHoursEnd
           hi == IF prefs.workingHoursStart <= prefs.workingHoursEnd
                 THEN prefs.workingHoursEnd ELSE prefs.workingHoursStart
           dayStart == setHours(day, lo)
           dayEnd == setHours(day, hi)
           minWindowMs == durationMinutes * 60 * 1000
           walked == WalkGaps(Blocked(busyBlocks, dayStart, dayEnd), 1, dayStart,
                              minWindowMs, <<>>)
           cursor == walked[2]
           windowMs == getTime(dayEnd) - getTime(cursor)
       IN IF cursor < dayEnd /\ windowMs >= minWindowMs
          THEN Append(walked[1], [start |-> cursor, end |-> dayEnd])
          ELSE walked[1]

\* The windows one day adds to freeWindows
DayWindows(busyBlocks, day, prefs, durationMinutes) ==
  IF getDay(day) \in prefs.noMeetingDays THEN <<>>
  ELSE LET dayStart == setHours(day, prefs.workingHoursStart)
           dayEnd == setHours(day, prefs.workingHoursEnd)
           minWindowMs == durationMinutes * 60 * 1000
           walked == WalkGaps(Blocked(busyBlocks, dayStart, dayEnd), 1, dayStart,
                              minWindowMs, <<>>)
           cursor == walked[2]
           windowMs == getTime(dayEnd) - getTime(cursor)
       IN IF cursor < dayEnd /\ windowMs >= minWindowMs
          THEN Append(walked[1], [start |-> cursor, end |-> dayEnd])
          ELSE walked[1]

RECURSIVE DaysFrom(_, _, _, _, _)
\* Mutant: the windows of a later day are put before those of an earlier day
DaysFrom_LaterFirst(busyBlocks, day, endDay, prefs, durationMinutes) ==
  IF day > endDay THEN <<>>
  ELSE DaysFrom(busyBlocks, day + 1, endDay, prefs, durationMinutes)
         \o DayWindows(busyBlocks, day, prefs, durationMinutes)

DaysFrom(busyBlocks, day, endDay, prefs, durationMinutes) ==
  IF day > endDay THEN <<>>
  ELSE DayWindows(busyBlocks, day, prefs, durationMinutes)
         \o DaysFrom(busyBlocks, day + 1, endDay, prefs, durationMinutes)

computeFreeSlots(p) ==
  DaysFrom(p.busyBlocks, p.startDate, p.endDate, p.prefs, p.durationMinutes)

\* Inputs of the engine
BlockInputs ==
  {[start |-> a, end |-> b] : a \in 0..DayLen + 1, b \in 0..DayLen + 1}

BusyInputs == UNION {[1..n -> {b \in BlockInputs : b.start <= b.end}] : n \in 0..MaxBlocks}

WorkingHoursInputs == {<<1, 3>>, <<0, 3>>, <<2, 2>>, <<3, 1>>}

NoMeetingDaysInputs == {{0, 6}, {}, {5}}

RangeInputs == {<<0, 0>>, <<0, 1>>, <<1, 0>>}

\* Values of <<bufferBeforeMinutes, bufferAfterMinutes>>; <<5, 5>> is the seed
BufferInputs == {<<5, 5>>, <<0, 0>>, <<1, 2>>}

AvailInput(bb, rg, wh, nmd, d) ==
  [busyBlocks |-> bb, startDate |-> rg[1], endDate |-> rg[2],
   prefs |-> [workingHoursStart |-> wh[1], workingHoursEnd |-> wh[2],
              noMeetingDays |-> nmd,
              bufferBeforeMinutes |-> 5, bufferAfterMinutes |-> 5],
   durationMinutes |-> d]

InitAvail ==
  /\ threads = <<>>
  /\ runs = [r \in Runs |-> IdleRun]
  /\ cal = [created |-> <<>>, cancelled |-> {}]
  /\ calls = 0
  /\ hist = [updFailed |-> {}, overlap |-> {}]
  /\ lastOp = Op("init", 0, NoRes, IdleRun)
  /\ clock = 0
  /\ prefStore = NewDb
  /\ agent = NoAgent
  /\ \E bb \in BusyInputs, rg \in RangeInputs, wh \in WorkingHoursInputs,
        nmd \in NoMeetingDaysInputs, d \in 0..MaxDur :
       av = [in |-> AvailInput(bb, rg, wh, nmd, d), done |-> FALSE, out |-> <<>>]

\* toolGetAvailability hands the busy blocks to computeFreeSlots
GetAvailability ==
  /\ ~av.done
  /\ av' = [av EXCEPT !.done = TRUE, !.out = computeFreeSlots(av.in)]
  /\ UNCHANGED <<threads, runs, cal, calls, hist, lastOp, clock, prefStore, agent>>

NextAvail == GetAvailability

SpecAvail == InitAvail /\ [][NextAvail]_vars

----------------------------------------------------------------------------
(* Thread store on its own: the upsertThread calls of the webhook, of      *)
(* update_thread_state and of book_meeting, applied one at a time to a     *)
(* table that earlier calls have filled.  lastOp holds the parameters of   *)
(* the last call and the row of its conversation before the call,          *)
(* hist.written the conversations upsertThread was ever called for.  The   *)
(* stored rows were written at second 0; the calls are made in that        *)
(* second or the next.                                                     *)

MaxWrites == 1

RequesterNameInputs == {None, Some("Req")}

TitleInputs == {None, Some("Sync")}

DurationInputs == {None, Some(30)}

\* The state argument of update_thread_state: toolInput.state is passed on
\* as it comes from the reasoning loop
StateInputs == ThreadState \cup {"done"}

\* proposedSlots: omitted, an empty list, a list of one slot
StoreSlotInputs == SlotInputs \cup {Some(<<>>)}

\* attendee_email and calendar_event_id are written together, by book_meeting
BookedInputs == {<<None, None>>, <<Some("ann@x.org"), Some("g1")>>}

\* The rows earlier calls can have left for a conversation
StoredRows(threadId, id) ==
  {[id |-> id, thread_id |-> threadId, state |-> st,
    proposed_slots |-> IF sl = None THEN None ELSE Some(JSONstringify(sl[1])),
    requester_email |-> "req@x.org", requester_name |-> nm,
    attendee_email |-> bk[1], meeting_title |-> ti,
    meeting_duration_minutes |-> du, calendar_event_id |-> bk[2],
    created_at |-> 0, updated_at |-> 0] :
     st \in ThreadState, sl \in SlotInputs, nm \in RequesterNameInputs,
     bk \in BookedInputs, ti \in TitleInputs, du \in DurationInputs}

\* Tables of the store: empty, one conversation, or two booked ones
StoredTables ==
  {<<>>} \cup {<<row>> : row \in StoredRows("t1", 1)}
         \cup {<<row, [id |-> 2, thread_id |-> "t2", state |-> "booked",
                       proposed_slots |-> None,
                       requester_email |-> "req@x.org",
                       requester_name |-> None,
                       attendee_email |-> Some("bob@x.org"),
                       meeting_title |-> Some("Sync"),
                       meeting_duration_minutes |-> None,
                       calendar_event_id |-> Some("g2"),
                       created_at |-> 0, updated_at |-> 0]>> :
                 row \in {r \in StoredRows("t1", 1) :
                            /\ r.state = "booked"
                            /\ r.calendar_event_id # None
                            /\ r.meeting_title # None
                            /\ r.proposed_slots = None}}

StoreOp(op, p, before) == [op |-> op, p |-> p, before |-> before]

InitStore ==
  /\ threads \in StoredTables
  /\ runs = [r \in Runs |-> IdleRun]
  /\ cal = [created |-> <<>>, cancelled |-> {}]
  /\ calls = 0
  /\ hist = [written |-> {threads[i].thread_id : i \in 1..Len(threads)}]
  /\ lastOp = StoreOp("init", Params("t1", "new"), None)
  /\ av = <<>>
  /\ clock \in {0, 1}
  /\ prefStore = NewDb
  /\ agent = NoAgent

\* One call of upsertThread
StoreWrite(op, p) ==
  /\ calls < MaxWrites
  /\ calls' = calls + 1
  /\ threads' = upsertThread(threads, p)
  /\ hist' = [hist EXCEPT !.written = @ \cup {p.threadId}]
  /\ lastOp' = StoreOp(op, p, RowOf(threads, p.threadId))
  /\ UNCHANGED <<runs, cal, av, clock, prefStore, agent>>

\* POST /webhook/email, the bootstrap of a conversation that has no thread
StoreWebhook(from, tid) ==
  /\ ~includes(toLowerCase(from.email), toLowerCase(AgentEmail))
  /\ getThread(threads, tid) = None
  /\ StoreWrite("store_webhook",
                [Params(tid, "new") EXCEPT
                   !.requesterEmail = Some(from.email),
                   !.requesterName = NullishOr(from.name, None)])

\* executeTool, case "update_thread_state", in a run the webhook started
StoreUpdateThreadState(tid, state, slots, title, duration) ==
  /\ getThread(threads, tid) # None
  /\ StoreWrite("store_update",
                [Params(tid, state) EXCEPT
                   !.proposedSlots = slots,
                   !.meetingTitle = title,
                   !.meetingDurationMinutes = duration])

\* executeTool, case "book_meeting": the write after the calendar call
StoreBookMeeting(tid, eventId, attendeeEmail) ==
  /\ getThread(threads, tid) # None
  /\ StoreWrite("store_book",
                [Params(tid, "booked") EXCEPT
                   !.calendarEventId = Some(eventId),
                   !.attendeeEmail = Some(attendeeEmail)])

\* upsertThread called with the requester of a message on a conversation
\* that has a thread
StoreUpsertRequester(tid, requesterEmail, requesterName) ==
  /\ getThread(threads, tid) # None
  /\ StoreWrite("store_upsert",
                [Params(tid, "new") EXCEPT
                   !.requesterEmail = requesterEmail,
                   !.requesterName = requesterName])

NextStore ==
  \/ \E from \in FromInputs, tid \in ThreadIds : StoreWebhook(from, tid)
  \/ \E tid \in ThreadIds, state \in StateInputs, slots \in StoreSlotInputs,
        title \in TitleInputs, duration \in DurationInputs :
       StoreUpdateThreadState(tid, state, slots, title, duration)
  \/ \E tid \in ThreadIds, requesterEmail \in {None, Some("new@x.org")},
        requesterName \in RequesterNameInputs :
       StoreUpsertRequester(tid, requesterEmail, requesterName)
  \/ \E tid \in ThreadIds, eventId \in {"g1", "g2"},
        attendeeEmail \in AttendeeInputs :
       StoreBookMeeting(tid, eventId, attendeeEmail)

SpecStore == InitStore /\ [][NextStore]_vars

----------------------------------------------------------------------------
(* The lookup of a booked thread by attendee, on the tables earlier calls  *)
(* can have left: none, one or two conversations, written at the same or   *)
(* at different seconds.                                                   *)

\* The rows of a second conversation: booked or cancelled, by book_meeting
\* or by update_thread_state alone
SecondRows ==
  {r \in StoredRows("t2", 2) :
     /\ r.state \in {"booked", "cancelled"}
     /\ r.proposed_slots = None
     /\ r.requester_name = None
     /\ r.meeting_title = None
     /\ r.meeting_duration_minutes = None}

FindTables ==
  {<<>>} \cup {<<row>> : row \in StoredRows("t1", 1)}
         \cup {<<[r1 EXCEPT !.updated_at = u1], [r2 EXCEPT !.updated_at = u2]>> :
                 r1 \in StoredRows("t1", 1), r2 \in SecondRows,
                 u1 \in {0, 1}, u2 \in {0, 1}}

InitFind ==
  /\ threads \in FindTables
  /\ runs = [r \in Runs |-> IdleRun]
  /\ cal = [created |-> <<>>, cancelled |-> {}]
  /\ calls = 0
  /\ hist = [written |-> {threads[i].thread_id : i \in 1..Len(threads)}]
  /\ lastOp = [op |-> "init"]
  /\ av = <<>>
  /\ clock = 1
  /\ prefStore = NewDb
  /\ agent = NoAgent

\* One call of toolFindBookedByAttendee; the store is only read
StoreFind(attendeeEmail) ==
  /\ \E res \in toolFindBookedByAttendee(threads, attendeeEmail) :
       lastOp' = [op |-> "store_find", email |-> attendeeEmail, res |-> res]
  /\ UNCHANGED <<threads, runs, cal, calls, hist, av, clock, prefStore, agent>>

NextFind == \E attendeeEmail \in AttendeeInputs : StoreFind(attendeeEmail)

SpecFind == InitFind /\ [][NextFind]_vars

----------------------------------------------------------------------------
(* The preference store across process starts.  The first store access of  *)
(* a process (the webhook's getThread) opens the database: getDb runs       *)
(* migrate, which seeds the defaults.  The tools run in agent runs, with    *)
(* the database open.  calls counts the set_preference calls.              *)

MaxSets == 2

\* The key argument of set_preference: the ten documented keys and another
KeyInputs == PrefKeys \cup {"theme"}

\* The value argument of set_preference: any text
ValueInputs == {"08:00", "19:00", "45", "-5", "[1]", "dinner at 6pm"}

InitPrefs ==
  /\ threads = <<>>
  /\ runs = [r \in Runs |-> IdleRun]
  /\ cal = [created |-> <<>>, cancelled |-> {}]
  /\ calls = 0
  /\ hist = [written |-> {}]
  /\ lastOp = [op |-> "init"]
  /\ av = <<>>
  /\ clock = 0
  /\ prefStore = NewDb
  /\ agent = NoAgent

\* getDb, first call in a process: migrate, seedDefaultPreferences
OpenDb ==
  /\ ~prefStore.open
  /\ prefStore' = [db |-> seedDefaultPreferences(prefStore.db), open |-> TRUE]
  /\ lastOp' = [op |-> "open"]
  /\ UNCHANGED <<threads, runs, cal, calls, hist, av, clock, agent>>

\* The process ends; the database file stays
Restart ==
  /\ prefStore.open
  /\ prefStore' = [prefStore EXCEPT !.open = FALSE]
  /\ lastOp' = [op |-> "restart"]
  /\ UNCHANGED <<threads, runs, cal, calls, hist, av, clock, agent>>

\* executeTool, case "get_preferences"
GetPreferences ==
  /\ prefStore.open
  /\ lastOp' = [op |-> "get_preferences", res |-> toolGetPreferences(prefStore.db)]
  /\ UNCHANGED <<threads, runs, cal, calls, hist, av, clock, prefStore, agent>>

\* executeTool, case "set_preference": executeTool reads the preferences
\* before it dispatches, so the call fails when that read throws
SetPreference(key, value) ==
  /\ prefStore.open
  /\ calls < MaxSets
  /\ calls' = calls + 1
  /\ LET prefs == toolGetPreferences(prefStore.db)
         r == toolSetPreference(prefStore.db, key, value)
     IN IF prefs.threw
        THEN /\ lastOp' = [op |-> "set_preference", key |-> key,
                           value |-> value, success |-> FALSE]
             /\ UNCHANGED prefStore
        ELSE /\ lastOp' = [op |-> "set_preference", key |-> key,
                           value |-> value, success |-> r.success]
             /\ prefStore' = [prefStore EXCEPT !.db = r.db]
  /\ UNCHANGED <<threads, runs, cal, hist, av, clock, agent>>

NextPrefs ==
  \/ OpenDb
  \/ Restart
  \/ GetPreferences
  \/ \E key \in KeyInputs, value \in ValueInputs : SetPreference(key, value)

SpecPrefs == InitPrefs /\ [][NextPrefs]_vars

----------------------------------------------------------------------------

(* The agent loop of runAgent, one conversation.  agent.messages is the    *)
(* messages array, agent.stops the stop reasons of the responses received  *)
(* so far, agent.i the position of the for loop in the content of the last *)
(* response and agent.toolResults the array the for loop fills.            *)

MaxTurns == 3

TextBlock == [type |-> "text", name |-> ""]

ToolUseBlock(name) == [type |-> "tool_use", name |-> name]

\* Contents of a response: text and tool_use blocks, a known tool and a
\* name executeTool does not know
ContentInputs ==
  {<<>>,
   <<TextBlock>>,
   <<ToolUseBlock("get_preferences")>>,
   <<TextBlock, ToolUseBlock("no_such_tool")>>,
   <<ToolUseBlock("book_meeting"), TextBlock, ToolUseBlock("no_such_tool")>>}

HasToolUse(content) == \E j \in 1..Len(content) : content[j].type = "tool_use"

\* Responses of the Messages API: stop reason tool_use comes with at least
\* one tool_use block, end_turn with none; a response cut at max_tokens
\* (4096 here) holds whatever blocks were produced up to the cut
ResponseInputs ==
  {[content |-> c, stop_reason |-> "tool_use"] : c \in {x \in ContentInputs : HasToolUse(x)}}
  \cup {[content |-> c, stop_reason |-> "end_turn"] : c \in {x \in ContentInputs : ~HasToolUse(x)}}
  \cup {[content |-> c, stop_reason |-> "max_tokens"] : c \in ContentInputs}

\* The blocks of the response of one turn; the API gives every tool_use
\* block its own id
ResponseContent(turn, content) ==
  [j \in 1..Len(content) |->
     content[j] @@ [id |-> IF content[j].type = "tool_use" THEN <<turn, j>> ELSE <<>>]]

\* for (const block of response.content) { if (block.type !== "tool_use")
\* continue; ... }: the next block the loop body runs for, from position from
NextToolUse(content, from) ==
  IF \E j \in from..Len(content) : content[j].type = "tool_use"
  THEN CHOOSE j \in from..Len(content) :
         /\ content[j].type = "tool_use"
         /\ \A k \in from..(j - 1) : content[k].type # "tool_use"
  ELSE Len(content) + 1

\* const messages = [{ role: "user", content: emailSummary }]
InitLoop ==
  /\ threads = <<>>
  /\ runs = [r \in Runs |-> IdleRun]
  /\ cal = [created |-> <<>>, cancelled |-> {}]
  /\ calls = 0
  /\ hist = [written |-> {}]
  /\ lastOp = [op |-> "init"]
  /\ av = <<>>
  /\ clock = 0
  /\ prefStore = NewDb
  /\ agent = [pc |-> "create",
              messages |-> <<[role |-> "user", content |-> <<TextBlock @@ [id |-> <<>>]>>]>>,
              stops |-> <<>>, i |-> 0, toolResults |-> <<>>]

\* await client.messages.create(...) resolves: the response is pushed, the
\* loop breaks on end_turn and on any stop reason other than tool_use, else
\* the for loop runs up to its first await
MessagesCreate(response) ==
  /\ agent.pc = "create"
  /\ Len(agent.stops) < MaxTurns
  /\ LET content == ResponseContent(Len(agent.stops) + 1, response.content)
         pushed == Append(agent.messages, [role |-> "assistant", content |-> content])
         j == NextToolUse(content, 1)
     IN  agent' =
           IF response.stop_reason = "end_turn" THEN
             [agent EXCEPT !.pc = "done", !.messages = pushed,
                           !.stops = Append(@, response.stop_reason)]
           ELSE IF response.stop_reason # "tool_use" THEN
             [agent EXCEPT !.pc = "done", !.messages = pushed,
                           !.stops = Append(@, response.stop_reason)]
           ELSE IF j > Len(content) THEN
             [agent EXCEPT !.pc = "create",
                           !.messages = Append(pushed, [role |-> "user", content |-> <<>>]),
                           !.stops = Append(@, response.stop_reason)]
           ELSE
             [agent EXCEPT !.pc = "tool", !.messages = pushed,
                           !.stops = Append(@, response.stop_reason),
                           !.i = j, !.toolResults = <<>>]
  /\ UNCHANGED <<threads, runs, cal, calls, hist, lastOp, av, clock, prefStore>>

\* await client.messages.create(...) rejects: nothing in runAgent catches
\* it, the run ends with the rejection
MessagesCreateFails ==
  /\ agent.pc = "create"
  /\ Len(agent.stops) < MaxTurns
  /\ agent' = [agent EXCEPT !.pc = "rejected"]
  /\ UNCHANGED <<threads, runs, cal, calls, hist, lastOp, av, clock, prefStore>>

\* What the for loop does once the tool_result of block i is pushed: on to
\* the next tool_use block, or messages.push({ role: "user", content:
\* toolResults }) and the next turn of while (true)
AfterToolResult(results) ==
  LET content == agent.messages[Len(agent.messages)].content
      j == NextToolUse(content, agent.i + 1)
  IN  IF j > Len(content)
      THEN [agent EXCEPT !.pc = "create", !.i = 0, !.toolResults = <<>>,
                         !.messages = Append(@, [role |-> "user", content |-> results])]
      ELSE [agent EXCEPT !.i = j, !.toolResults = results]

\* Mutant: no try / catch around executeTool
ExecuteTool_Uncaught(outcome) ==
  /\ agent.pc = "tool"
  /\ LET block == agent.messages[Len(agent.messages)].content[agent.i]
         result == [kind |-> "result", tool |-> block.name]
     IN  /\ block.name = "no_such_tool" => outcome = "throws"
         /\ agent' =
              IF outcome = "throws"
              THEN [agent EXCEPT !.pc = "rejected"]
              ELSE AfterToolResult(Append(agent.toolResults,
                     [type |-> "tool_result", tool_use_id |-> block.id,
                      content |-> JSONstringify(result)]))
  /\ UNCHANGED <<threads, runs, cal, calls, hist, lastOp, av, clock, prefStore>>

\* One pass of the for loop body: await executeTool(...) resolves or throws
\* (always throws for a name outside the switch), the catch turns the throw
\* into { error }, the tool_result is pushed
ExecuteTool(outcome) ==
  /\ agent.pc = "tool"
  /\ LET block == agent.messages[Len(agent.messages)].content[agent.i]
         result == IF outcome = "throws"
                   THEN [kind |-> "error", tool |-> block.name]
                   ELSE [kind |-> "result", tool |-> block.name]
     IN  /\ block.name = "no_such_tool" => outcome = "throws"
         /\ agent' = AfterToolResult(Append(agent.toolResults,
                       [type |-> "tool_result", tool_use_id |-> block.id,
                        content |-> JSONstringify(result)]))
  /\ UNCHANGED <<threads, runs, cal, calls, hist, lastOp, av, clock, prefStore>>

NextLoop ==
  \/ \E response \in ResponseInputs : MessagesCreate(response)
  \/ MessagesCreateFails
  \/ \E outcome \in {"returns", "throws"} : ExecuteTool(outcome)

SpecLoop == InitLoop /\ [][NextLoop]_vars

----------------------------------------------------------------------------

(* Booking reconciler: properties of book_meeting and cancel_meeting *)

\* The row of the conversation the last step worked on
LastRow == RowOf(threads, lastOp.call.tid)[1]

BookEnded == lastOp.op \in {"book_updated", "book_created", "book_failed"}

\* The reference stored on the thread when the last call began
StoredBefore == lastOp.call.snap[1].calendar_event_id

\* C1 as stated: on a thread with a stored event reference, when the update
\* call succeeds, no event is created, the returned eventId is the stored
\* reference and the stored reference after the call is the one before it.
C1_Original ==
  (lastOp.op = "book_updated" /\ StoredBefore # None)
    => /\ lastOp.call.nCre = 0
       /\ Some(lastOp.res.eventId) = StoredBefore
       /\ LastRow.calendar_event_id = StoredBefore

\* C1 amended: on a thread with a stored event reference, when the update
\* call succeeds, no create call is made, the returned eventId is the
\* candidate (the supplied existingEventId, else the stored reference), the
\* thread then stores that candidate, and the stored reference is unchanged
\* whenever no existingEventId was supplied or it equals the stored one.
C1_UpdateKeepsReference ==
  (lastOp.op = "book_updated" /\ StoredBefore # None)
    => /\ lastOp.call.nCre = 0
       /\ Some(lastOp.res.eventId) = lastOp.call.cand
       /\ lastOp.call.cand = NullishOr(lastOp.call.xin, StoredBefore)
       /\ LastRow.calendar_event_id = lastOp.call.cand
       /\ (lastOp.call.xin \in {None, StoredBefore}
             => LastRow.calendar_event_id = StoredBefore)

C1_Witness ==
  /\ lastOp.op = "book_updated"
  /\ StoredBefore # None
  /\ lastOp.call.xin = None
  /\ LastRow.calendar_event_id = StoredBefore

\* C2: with a candidate reference, when the update call fails and the create
\* call succeeds, the call returns a booking (no error) carrying the id of
\* the event just created, and the thread then stores that id, which is not
\* the stale candidate.
C2_FallbackCreateStored ==
  (lastOp.op = "book_created" /\ lastOp.call.updFailed)
    => /\ lastOp.res.kind = "booking"
       /\ Len(cal.created) > 0
       /\ lastOp.res.eventId = cal.created[Len(cal.created)].id
       /\ LastRow.calendar_event_id = Some(lastOp.res.eventId)
       /\ LastRow.calendar_event_id # lastOp.call.cand

C2_Witness ==
  /\ lastOp.op = "book_created"
  /\ lastOp.call.updFailed
  /\ StoredBefore # None
  /\ StoredBefore = lastOp.call.cand
  /\ LastRow.calendar_event_id = Some("g2")

\* C3: right after every book_meeting call that succeeds, by update or by
\* create, the conversation's thread has state booked, its event reference
\* is the returned eventId and its attendee email is the attendeeEmail
\* argument.
C3_BookedRecord ==
  lastOp.op \in {"book_updated", "book_created"}
    => /\ LastRow.state = "booked"
       /\ LastRow.calendar_event_id = Some(lastOp.res.eventId)
       /\ LastRow.attendee_email = Some(lastOp.call.att)

C3_Witness ==
  /\ lastOp.op \in {"book_updated", "book_created"}
  /\ lastOp.call.snap[1].attendee_email # None
  /\ lastOp.call.snap[1].attendee_email # Some(lastOp.call.att)
  /\ StoredBefore # None
  /\ StoredBefore # Some(lastOp.res.eventId)
  /\ LastRow.attendee_email = Some(lastOp.call.att)

\* C4: when book_meeting fails because the create call fails (directly or as
\* the fallback), the caller gets an error and no booking, and the thread row
\* is exactly the row of before the call (no other run having written it
\* meanwhile).
C4_FailureLeavesThread ==
  lastOp.op = "book_failed"
    => /\ lastOp.res.kind = "error"
       /\ (~lastOp.call.intf => RowOf(threads, lastOp.call.tid) = lastOp.call.snap)

C4_Witness ==
  /\ lastOp.op = "book_failed"
  /\ lastOp.call.updFailed
  /\ ~lastOp.call.intf
  /\ lastOp.call.snap[1].state = "awaiting_confirmation"
  /\ LastRow.state = "awaiting_confirmation"

\* C5 as stated: the candidate of book_meeting is the supplied
\* existingEventId when one is supplied and else the stored reference, and
\* there is no candidate (the update is skipped) exactly when both are absent.
C5_Candidate ==
  \A r \in Runs :
    (lastOp.op = "book_start" /\ lastOp.run = r)
      => LET stored == runs[r].snap[1].calendar_event_id
         IN /\ (runs[r].xin # None => runs[r].cand = runs[r].xin)
            /\ (runs[r].xin = None => runs[r].cand = stored)
            /\ (runs[r].pc = "await_create"
                  <=> (runs[r].xin = None /\ stored = None))

C7_AtMostOneEvent ==
  \A t \in ThreadIds :
    (t \notin hist.updFailed /\ t \notin hist.overlap)
      => Cardinality(CreatedFor(cal, t)) <= 1

----------------------------------------------------------------------------
(* Availability engine: properties of the list computeFreeSlots returns *)

Windows == {av.out[i] : i \in 1..Len(av.out)}

RangeDays == {d \in {0, 1} : av.in.startDate <= d /\ d <= av.in.endDate}

WorkStart(d) == d * DayLen + av.in.prefs.workingHoursStart

WorkEnd(d) == d * DayLen + av.in.prefs.workingHoursEnd

Max2(a, b) == IF a >= b THEN a ELSE b

Min2(a, b) == IF a <= b THEN a ELSE b

\* The window w and the interval [lo, hi) have a point in common
Meets(w, lo, hi) == Max2(w.start, lo) < Min2(w.end, hi)

\* C9: every returned window lasts at least durationMinutes; a shorter gap
\* is never returned.
C9_WindowsLongEnough ==
  av.done => \A w \in Windows : w.end - w.start >= av.in.durationMinutes

C9_Witness ==
  /\ av.done
  /\ av.in.durationMinutes = 2
  /\ av.in.busyBlocks = <<[start |-> 1, end |-> 2]>>
  /\ av.in.prefs.workingHoursStart = 0
  /\ av.in.prefs.workingHoursEnd = 3
  /\ av.out = <<[start |-> 4, end |-> 7]>>

\* C10: no returned window has a point in common with a busy block clipped
\* to the working hours of a day of the range, whatever the order, overlap or
\* nesting of the blocks; a block that covers the working hours of a day
\* leaves no window on that day.
C10_WindowsAvoidBusy ==
  av.done =>
    \A d \in RangeDays :
      \A i \in 1..Len(av.in.busyBlocks) :
        LET b == av.in.busyBlocks[i]
        IN /\ \A w \in Windows :
                ~Meets(w, Max2(b.start, WorkStart(d)), Min2(b.end, WorkEnd(d)))
           /\ (b.start <= WorkStart(d) /\ b.end >= WorkEnd(d))
                => ~\E w \in Windows :
                      d * DayLen <= w.start /\ w.start < (d + 1) * DayLen

C10_Witness ==
  /\ av.done
  /\ av.in.busyBlocks = <<[start |-> 2, end |-> 5], [start |-> 0, end |-> 2]>>
  /\ av.in.prefs.workingHoursStart = 1
  /\ av.in.prefs.workingHoursEnd = 3
  /\ av.in.startDate = 0 /\ av.in.endDate = 1
  /\ av.in.prefs.noMeetingDays = {}
  /\ av.in.durationMinutes = 1
  /\ av.out = <<[start |-> 5, end |-> 7]>>

\* The days of the range the engine does not skip
ProcessedDays == {d \in RangeDays : getDay(d) \notin av.in.prefs.noMeetingDays}

\* No two of the busy blocks handed to the engine have a point in common
NonOverlapping ==
  \A i \in 1..Len(av.in.busyBlocks) : \A j \in 1..Len(av.in.busyBlocks) :
    i < j => ~Meets(av.in.busyBlocks[i], av.in.busyBlocks[j].start,
                    av.in.busyBlocks[j].end)

\* The minutes [t, t + 1) of the working hours of day d
WorkMinutes(d) == {t \in d * DayLen .. (d + 1) * DayLen - 1 :
                     WorkStart(d) <= t /\ t < WorkEnd(d)}

\* How many returned windows and how many clipped busy blocks of day d
\* contain the minute t
InWindows(t) ==
  Cardinality({i \in 1..Len(av.out) : av.out[i].start <= t /\ t < av.out[i].end})

InBusy(t, d) ==
  Cardinality({i \in 1..Len(av.in.busyBlocks) :
                 /\ Max2(av.in.busyBlocks[i].start, WorkStart(d)) <= t
                 /\ t < Min2(av.in.busyBlocks[i].end, WorkEnd(d))})

\* The gap around a free minute t of day d: from the last block end at or
\* before t (or the working-hours start) to the first block start after t
\* (or the working-hours end)
GapStart(t, d) ==
  LET ends == {WorkStart(d)} \cup
              {av.in.busyBlocks[i].end : i \in 1..Len(av.in.busyBlocks)}
      upTo == {e \in ends : e <= t}
  IN CHOOSE e \in upTo : \A f \in upTo : f <= e

GapEnd(t, d) ==
  LET starts == {WorkEnd(d)} \cup
                {av.in.busyBlocks[i].start : i \in 1..Len(av.in.busyBlocks)}
      after == {s \in starts : s > t}
  IN CHOOSE s \in after : \A f \in after : s <= f

\* C11 as stated: with pairwise non-overlapping busy blocks, every minute of
\* the working hours of a processed day lies in exactly one returned window
\* or clipped busy block.
C11_Original ==
  (av.done /\ NonOverlapping) =>
    \A d \in ProcessedDays : \A t \in WorkMinutes(d) :
      InWindows(t) + InBusy(t, d) = 1

\* C11: with pairwise non-overlapping busy blocks, no minute of the working
\* hours of a processed day lies in more than one returned window or clipped
\* busy block, and a minute that lies in none is in a candidate gap (from the
\* working-hours start or a block end to the next block start or the
\* working-hours end) shorter than durationMinutes; the cover is exact when
\* durationMinutes is 0.
C11_CoverUpToShortGaps ==
  (av.done /\ NonOverlapping) =>
    \A d \in ProcessedDays : \A t \in WorkMinutes(d) :
      /\ InWindows(t) + InBusy(t, d) <= 1
      /\ InWindows(t) + InBusy(t, d) = 0
           => GapEnd(t, d) - GapStart(t, d) < av.in.durationMinutes
      /\ av.in.durationMinutes = 0 => InWindows(t) + InBusy(t, d) = 1

\* The gap before a block is too short and is left uncovered; the gap after
\* it is returned
C11_Witness ==
  /\ av.done
  /\ av.in.busyBlocks = <<[start |-> 1, end |-> 1]>>
  /\ av.in.prefs.workingHoursStart = 0
  /\ av.in.prefs.workingHoursEnd = 3
  /\ av.in.startDate = 0 /\ av.in.endDate = 0
  /\ av.in.prefs.noMeetingDays = {}
  /\ av.in.durationMinutes = 2
  /\ av.out = <<[start |-> 1, end |-> 3]>>

\* The returned windows that start on day d, in order
WindowsOfDay(d) ==
  SelectSeq(av.out, LAMBDA w : d * DayLen <= w.start /\ w.start < (d + 1) * DayLen)

\* The busy block b takes time on day d, or is an instant of day d
OnDay(b, d) ==
  \/ Meets(b, d * DayLen, (d + 1) * DayLen)
  \/ b.start = b.end /\ d * DayLen <= b.start /\ b.start < (d + 1) * DayLen

\* [a, b) is a maximal run of free minutes of the working hours of day d
MaximalFreeGap(a, b, d) ==
  /\ WorkStart(d) <= a /\ a < b /\ b <= WorkEnd(d)
  /\ \A t \in a .. b - 1 : InBusy(t, d) = 0
  /\ a = WorkStart(d) \/ InBusy(a - 1, d) > 0
  /\ b = WorkEnd(d) \/ InBusy(b, d) > 0

\* C12: on a processed day every returned window is a maximal free gap of
\* the working hours, starting at the working-hours start or at the end of a
\* busy block and ending at the working-hours end or at the start of a busy
\* block; every maximal free gap at least durationMinutes long (equal
\* included) is returned; a day without busy blocks yields the whole
\* working-hours span when it is long enough.
C12_MaximalGaps ==
  av.done =>
    \A d \in ProcessedDays :
      LET ws == WindowsOfDay(d)
          bs == av.in.busyBlocks
      IN /\ \A k \in 1..Len(ws) :
              /\ MaximalFreeGap(ws[k].start, ws[k].end, d)
              /\ \/ ws[k].start = WorkStart(d)
                 \/ \E i \in 1..Len(bs) : bs[i].end = ws[k].start
              /\ \/ ws[k].end = WorkEnd(d)
                 \/ \E i \in 1..Len(bs) : bs[i].start = ws[k].end
         /\ \A a \in WorkMinutes(d) : \A b \in a + 1 .. WorkEnd(d) :
              (MaximalFreeGap(a, b, d) /\ b - a >= av.in.durationMinutes)
                => \E k \in 1..Len(ws) : ws[k] = [start |-> a, end |-> b]
         /\ ( /\ \A i \in 1..Len(bs) : ~OnDay(bs[i], d)
              /\ WorkStart(d) < WorkEnd(d)
              /\ WorkEnd(d) - WorkStart(d) >= av.in.durationMinutes )
              => ws = <<[start |-> WorkStart(d), end |-> WorkEnd(d)]>>

\* C13: no returned window lies on a day of the range whose weekday is in
\* noMeetingDays, whatever the busy blocks are and also when there are none.
C13_NoMeetingDaysEmpty ==
  av.done =>
    \A d \in RangeDays :
      getDay(d) \in av.in.prefs.noMeetingDays =>
        ~\E i \in 1..Len(av.out) :
            Meets(av.out[i], d * DayLen, (d + 1) * DayLen)

\* Friday is skipped although it is free; Saturday is processed
C13_Witness ==
  /\ av.done
  /\ av.in.busyBlocks = <<>>
  /\ av.in.prefs.noMeetingDays = {5}
  /\ av.in.startDate = 0 /\ av.in.endDate = 1
  /\ av.in.prefs.workingHoursStart = 0
  /\ av.in.prefs.workingHoursEnd = 3
  /\ av.in.durationMinutes = 1
  /\ av.out = <<[start |-> 4, end |-> 7]>>

\* The same call with other buffer preferences
WithBuffers(in, b) ==
  [in EXCEPT !.prefs.bufferBeforeMinutes = b[1],
             !.prefs.bufferAfterMinutes = b[2]]

C15_Chronological ==
  av.done =>
    /\ \A i \in 1..Len(av.out) - 1 : av.out[i].end <= av.out[i + 1].start
    /\ \A i \in 1..Len(av.out) : \A j \in 1..Len(av.out) :
         (\E d \in RangeDays :
            /\ av.out[i].start < (d + 1) * DayLen
            /\ av.out[j].start >= (d + 1) * DayLen) => i < j

\* Busy blocks given latest first, windows on two days
C15_Witness ==
  /\ av.done
  /\ av.in.busyBlocks = <<[start |-> 5, end |-> 5], [start |-> 1, end |-> 2]>>
  /\ av.in.prefs.workingHoursStart = 0
  /\ av.in.prefs.workingHoursEnd = 3
  /\ av.in.startDate = 0 /\ av.in.endDate = 1
  /\ av.in.prefs.noMeetingDays = {}
  /\ av.in.durationMinutes = 1
  /\ av.out = <<[start |-> 0, end |-> 1], [start |-> 2, end |-> 3],
                [start |-> 4, end |-> 5], [start |-> 5, end |-> 7]>>

\* C16: with workingHoursStart >= workingHoursEnd the engine returns the
\* empty list, for every set of busy blocks, every duration and every range.
C16_MalformedHoursEmpty ==
  (av.done /\ av.in.prefs.workingHoursStart >= av.in.prefs.workingHoursEnd)
    => av.out = <<>>

\* Working hours end before they start, a block spans both ends, duration 0
C16_Witness ==
  /\ av.done
  /\ av.in.prefs.workingHoursStart = 3
  /\ av.in.prefs.workingHoursEnd = 1
  /\ av.in.busyBlocks = <<[start |-> 0, end |-> 5]>>
  /\ av.in.startDate = 0 /\ av.in.endDate = 1
  /\ av.in.prefs.noMeetingDays = {}
  /\ av.in.durationMinutes = 0
  /\ av.out = <<>>

\* C17: every returned window starts strictly before it ends and lies inside
\* the working hours of one processed day of the range; a busy block that
\* reaches past a working-hours boundary is clipped to it.
C17_WindowsInsideHours ==
  av.done =>
    \A i \in 1..Len(av.out) :
      /\ av.out[i].start < av.out[i].end
      /\ \E d \in ProcessedDays :
           /\ WorkStart(d) <= av.out[i].start
           /\ av.out[i].end <= WorkEnd(d)

\* One block reaches past the end of Friday's working hours and into
\* Saturday's
C17_Witness ==
  /\ av.done
  /\ av.in.busyBlocks = <<[start |-> 2, end |-> 5]>>
  /\ av.in.prefs.workingHoursStart = 0
  /\ av.in.prefs.workingHoursEnd = 3
  /\ av.in.startDate = 0 /\ av.in.endDate = 1
  /\ av.in.prefs.noMeetingDays = {}
  /\ av.in.durationMinutes = 1
  /\ av.out = <<[start |-> 0, end |-> 2], [start |-> 5, end |-> 7]>>

----------------------------------------------------------------------------
(* Thread store: properties of upsertThread and getThread *)

StoreWrites == {"store_webhook", "store_update", "store_book", "store_upsert"}

\* The indices of the rows of a conversation
RowsOf(threadId) == {i \in 1..Len(threads) : threads[i].thread_id = threadId}

\* The row the last call wrote, and that row before the call
RowAfter == RowOf(threads, lastOp.p.threadId)[1]

RowBefore == lastOp.before[1]

\* C18: the table holds exactly one row for each conversation upsertThread
\* was ever called for and no other row; getThread returns that row, which
\* after a call carries the state the call supplied.
C18_OneRecordPerId ==
  /\ \A i \in 1..Len(threads) : threads[i].thread_id \in hist.written
  /\ \A threadId \in hist.written :
       /\ Cardinality(RowsOf(threadId)) = 1
       /\ \A i \in RowsOf(threadId) :
            getThread(threads, threadId) = Some(rowToThread(threads[i]))
  /\ lastOp.op \in StoreWrites =>
       /\ getThread(threads, lastOp.p.threadId) # None
       /\ getThread(threads, lastOp.p.threadId)[1].state = lastOp.p.state

\* book_meeting wrote a conversation that had a row, next to another one
C18_Witness ==
  /\ lastOp.op = "store_book"
  /\ lastOp.p.threadId = "t2"
  /\ lastOp.before # None
  /\ Len(threads) = 2
  /\ hist.written = {"t1", "t2"}

\* C19 as stated: upserting only {state: "booked"} on an existing thread
\* changes nothing in its row but state and updated_at.
C19_Original ==
  (lastOp.op \in StoreWrites /\ lastOp.p = Params(lastOp.p.threadId, "booked")
     /\ lastOp.before # None)
    => RowAfter = [RowBefore EXCEPT !.state = "booked", !.updated_at = clock]

\* C19: upserting only {state: "booked"} on an existing thread leaves the
\* requester, attendee, title, duration and event reference of its row as
\* they were and changes nothing but state, updated_at and proposed_slots,
\* which becomes null.
C19_BookedOnlyKeepsIdentity ==
  (lastOp.op \in StoreWrites /\ lastOp.p = Params(lastOp.p.threadId, "booked")
     /\ lastOp.before # None)
    => /\ RowAfter = [RowBefore EXCEPT !.state = "booked", !.updated_at = clock,
                                       !.proposed_slots = None]
       /\ RowAfter.requester_email = RowBefore.requester_email
       /\ RowAfter.requester_name = RowBefore.requester_name
       /\ RowAfter.attendee_email = RowBefore.attendee_email
       /\ RowAfter.meeting_title = RowBefore.meeting_title
       /\ RowAfter.meeting_duration_minutes = RowBefore.meeting_duration_minutes
       /\ RowAfter.calendar_event_id = RowBefore.calendar_event_id

\* Every identity field and the proposed slots were set, a second has passed
C19_Witness ==
  /\ lastOp.op = "store_update"
  /\ lastOp.p = Params("t1", "booked")
  /\ lastOp.before # None
  /\ RowBefore.state = "awaiting_confirmation"
  /\ RowBefore.proposed_slots # None
  /\ RowAfter.requester_name = Some("Req")
  /\ RowAfter.attendee_email = Some("ann@x.org")
  /\ RowAfter.meeting_title = Some("Sync")
  /\ RowAfter.meeting_duration_minutes = Some(30)
  /\ RowAfter.calendar_event_id = Some("g1")
  /\ RowAfter.state = "booked"
  /\ RowAfter.updated_at = 1
  /\ RowBefore.updated_at = 0

\* C20: after an upsert of an existing thread getThread shows the supplied
\* state and the supplied proposedSlots, null when none were supplied: a call
\* of update_thread_state or book_meeting without proposedSlots clears them.
C20_StateAndSlotsReplaced ==
  (lastOp.op \in StoreWrites /\ lastOp.before # None)
    => /\ getThread(threads, lastOp.p.threadId)[1].state = lastOp.p.state
       /\ getThread(threads, lastOp.p.threadId)[1].proposedSlots
            = lastOp.p.proposedSlots
       /\ RowAfter.proposed_slots = None <=> lastOp.p.proposedSlots = None

\* book_meeting, which passes no proposedSlots, clears the stored ones
C20_Witness ==
  /\ lastOp.op = "store_book"
  /\ lastOp.before # None
  /\ RowBefore.proposed_slots # None
  /\ RowBefore.state = "awaiting_confirmation"
  /\ getThread(threads, lastOp.p.threadId)[1].proposedSlots = None
  /\ getThread(threads, lastOp.p.threadId)[1].state = "booked"

\* C21: on an upsert of an existing thread each identity field that is
\* supplied takes the supplied value and each one that is omitted or null
\* keeps the stored value.
C21_IdentityFieldsMerge ==
  (lastOp.op \in StoreWrites /\ lastOp.before # None) =>
    /\ RowAfter.requester_email =
         IF lastOp.p.requesterEmail # None THEN lastOp.p.requesterEmail[1]
         ELSE RowBefore.requester_email
    /\ RowAfter.requester_name =
         IF lastOp.p.requesterName # None THEN lastOp.p.requesterName
         ELSE RowBefore.requester_name
    /\ RowAfter.attendee_email =
         IF lastOp.p.attendeeEmail # None THEN lastOp.p.attendeeEmail
         ELSE RowBefore.attendee_email
    /\ RowAfter.meeting_title =
         IF lastOp.p.meetingTitle # None THEN lastOp.p.meetingTitle
         ELSE RowBefore.meeting_title
    /\ RowAfter.meeting_duration_minutes =
         IF lastOp.p.meetingDurationMinutes # None
         THEN lastOp.p.meetingDurationMinutes
         ELSE RowBefore.meeting_duration_minutes
    /\ RowAfter.calendar_event_id =
         IF lastOp.p.calendarEventId # None THEN lastOp.p.calendarEventId
         ELSE RowBefore.calendar_event_id

\* C22: the state of every stored thread is one of new,
\* awaiting_confirmation, booked, cancelled; a write that supplies any other
\* state leaves the record it found untouched.
C22_StateInEnum ==
  /\ \A i \in 1..Len(threads) : threads[i].state \in ThreadState
  /\ (lastOp.op \in StoreWrites /\ lastOp.p.state \notin ThreadState) =>
       RowOf(threads, lastOp.p.threadId) = lastOp.before

\* C23: findBookedByAttendee(email) returns a thread that is booked, has
\* attendee email, and was updated no earlier than any other such thread;
\* it returns null exactly when the store holds no such thread.
C23_FindBooked ==
  lastOp.op = "store_find" =>
    LET booked == {i \in 1..Len(threads) :
                     /\ threads[i].state = "booked"
                     /\ threads[i].attendee_email = Some(lastOp.email)}
    IN /\ (lastOp.res = None) <=> (booked = {})
       /\ lastOp.res # None =>
            \E i \in booked :
               /\ lastOp.res[1] = rowToThread(threads[i])
               /\ \A k \in booked :
                     threads[k].updated_at <= threads[i].updated_at

\* Two booked threads of one attendee, the second written later, and the
\* lookup returned the second
C23_Witness ==
  /\ lastOp.op = "store_find"
  /\ lastOp.res # None
  /\ lastOp.res[1].threadId = "t2"
  /\ Len(threads) = 2
  /\ \A i \in 1..2 : /\ threads[i].state = "booked"
                     /\ threads[i].attendee_email = Some(lastOp.email)
  /\ threads[1].updated_at < threads[2].updated_at

\* C24: in every execution a thread enters state cancelled only from state
\* booked: no step takes a stored thread from new or awaiting_confirmation
\* (or from no record at all) to cancelled.
C24_CancelledOnlyFromBooked ==
  [][\A tid \in ThreadIds :
       (/\ RowOf(threads', tid) # None
        /\ RowOf(threads', tid)[1].state = "cancelled"
        /\ \/ RowOf(threads, tid) = None
           \/ RowOf(threads, tid)[1].state # "cancelled")
       => /\ RowOf(threads, tid) # None
          /\ RowOf(threads, tid)[1].state = "booked"]_vars

\* The parameters of the thread write the last step made
Written ==
  IF lastOp.op = "update_thread_state" THEN lastOp.p
  ELSE [Params(lastOp.call.tid, "booked") EXCEPT
          !.calendarEventId = Some(lastOp.res.eventId),
          !.attendeeEmail = Some(lastOp.call.att)]

ThreadWrites == {"update_thread_state", "book_updated", "book_created"}

\* C25: runs that write the same conversation are applied one write after
\* the other: after each write the store holds exactly one record of that
\* conversation, with the state and the proposedSlots of that write, whatever
\* another run wrote before; and a step changes the record of a conversation
\* only if it is a webhook or a write of a run working on that conversation.
C25_LastWriterWins ==
  /\ [](lastOp.op \in ThreadWrites =>
          /\ Cardinality({i \in 1..Len(threads) :
                            threads[i].thread_id = Written.threadId}) = 1
          /\ RowOf(threads, Written.threadId)[1].state = Written.state
          /\ RowOf(threads, Written.threadId)[1].proposed_slots =
               IF Written.proposedSlots # None
               THEN Some(JSONstringify(Written.proposedSlots[1])) ELSE None)
  /\ [][\A tid \in ThreadIds :
          RowOf(threads', tid) # RowOf(threads, tid) =>
            \/ lastOp'.op = "webhook_ok" /\ runs'[lastOp'.run].tid = tid
            \/ lastOp'.op \in ThreadWrites /\ runs'[lastOp'.run].tid = tid]_vars

\* A run's book_meeting wrote the thread last, after another run, still
\* working on the same conversation, had written it during the call with
\* another state and a slot list
C25_Witness ==
  /\ lastOp.op = "book_created"
  /\ lastOp.call.intf
  /\ \E q \in Runs : /\ q # lastOp.run
                     /\ runs[q].pc = "loop"
                     /\ runs[q].tid = lastOp.call.tid
  /\ LastRow.state = "booked"
  /\ LastRow.proposed_slots = None

----------------------------------------------------------------------------
(* Preference store: properties of seeding, get_preferences and            *)
(* set_preference                                                          *)

\* C26: seeding is insert-if-absent: when a process opens the database,
\* every key that has a stored value keeps that value and every key that
\* has none gets its default.
C26_SeedInsertIfAbsent ==
  [][(~prefStore.open /\ prefStore'.open) =>
       \A k \in PrefKeys :
          prefStore'.db[k] = IF prefStore.db[k] # None THEN prefStore.db[k]
                             ELSE Some(DEFAULT_PREFERENCES[k])]_vars

\* The database was opened again after set_preference stored a value, and
\* the value is still stored
C26_Witness ==
  /\ lastOp.op = "open"
  /\ calls > 0
  /\ prefStore.db["defaultMeetingDurationMinutes"] = Some("45")
  /\ prefStore.db["bufferBeforeMinutes"] = Some("5")

\* C27: get_preferences always returns a structure with every field
\* populated: a number for each numeric key, a list for noMeetingDays and
\* the stored text for the other keys, the stored value being the default
\* for a key that was never written.
C27_AllFieldsPopulated ==
  lastOp.op = "get_preferences" =>
    /\ ~lastOp.res.threw
    /\ \A k \in PrefKeys :
          /\ k \in NumericKeys =>
               /\ lastOp.res.fields[k].t = "number"
               /\ lastOp.res.fields[k] = Number(prefStore.db[k][1])
          /\ k = "noMeetingDays" =>
               /\ lastOp.res.fields[k].t = "list"
               /\ Some(lastOp.res.fields[k]) = JSONparseText(prefStore.db[k][1])
          /\ k \notin NumericKeys \cup {"noMeetingDays"} =>
               lastOp.res.fields[k] = Str(prefStore.db[k][1])

\* C28: set_preference with a key that is not a preference key is rejected
\* and writes nothing: the preference store is the same before and after
\* the call.
C28_UnknownKeyRejected ==
  /\ []((lastOp.op = "set_preference" /\ lastOp.key \notin PrefKeys) =>
          ~lastOp.success)
  /\ [][(lastOp'.op = "set_preference" /\ lastOp'.key \notin PrefKeys) =>
          prefStore' = prefStore]_vars

\* A call with the unknown key was rejected, on a store that holds a value
\* written before
C28_Witness ==
  /\ lastOp.op = "set_preference"
  /\ lastOp.key = "theme"
  /\ ~lastOp.success
  /\ prefStore.db["workingHoursStart"] = Some("08:00")
  /\ "theme" \notin DOMAIN prefStore.db

\* C29: set_preference succeeds for each of the ten documented keys, and the
\* preferences read after it hold the value just written for that key.
C29_SetThenGet ==
  (lastOp.op = "set_preference" /\ lastOp.key \in PrefKeys) =>
    /\ lastOp.success
    /\ prefStore.db[lastOp.key] = Some(lastOp.value)
    /\ ~toolGetPreferences(prefStore.db).threw
    /\ toolGetPreferences(prefStore.db).fields[lastOp.key] =
         CASE lastOp.key \in NumericKeys -> Number(lastOp.value)
           [] lastOp.key = "noMeetingDays" -> JSONparseText(lastOp.value)[1]
           [] OTHER -> Str(lastOp.value)

\* C30: the stored preferences always have working-hours start before
\* working-hours end, and a default duration and two buffer values that are
\* non-negative integers.
C30_StoredPreferencesValid ==
  (\A k \in PrefKeys : prefStore.db[k] # None) =>
    /\ TimeOfDay(prefStore.db["workingHoursStart"][1]) # None
    /\ TimeOfDay(prefStore.db["workingHoursEnd"][1]) # None
    /\ TimeOfDay(prefStore.db["workingHoursStart"][1])[1] <
         TimeOfDay(prefStore.db["workingHoursEnd"][1])[1]
    /\ \A k \in {"defaultMeetingDurationMinutes", "bufferBeforeMinutes",
                 "bufferAfterMinutes"} :
          /\ Number(prefStore.db[k][1]).t = "number"
          /\ Number(prefStore.db[k][1]).v >= 0

----------------------------------------------------------------------------
(* Orchestrator: properties of the webhook, of the agent loop and of the   *)
(* thread record over a whole execution                                    *)

\* C31: a book_meeting call whose slot has start not strictly before end is
\* rejected at the call boundary: no calendar update or create call is made
\* for it and the thread record is the one of before the call.
C31_MalformedSlotRejected ==
  (lastOp.op = "book_start" /\ lastOp.slot.start >= lastOp.slot.end) =>
    /\ runs[lastOp.run].nUpd = 0
    /\ runs[lastOp.run].nCre = 0
    /\ ~InBook(runs[lastOp.run])
    /\ RowOf(threads, runs[lastOp.run].tid) = runs[lastOp.run].snap

\* C32: the acknowledgement of an accepted inbound event is sent before its
\* agent run starts and does not wait for it: whenever a run has started,
\* whatever await it is suspended on and whether or not it has ended, its
\* event has been acknowledged; and while a run slot is free the webhook
\* accepts and acknowledges a further event whatever the other runs do.
C32_AckBeforeRun ==
  /\ \A r \in Runs : runs[r].pc # "idle" => r \in hist.acked
  /\ \A r \in Runs :
        (runs[r].pc = "idle" /\ \A q \in Runs : q < r => runs[q].pc # "idle")
          => ENABLED (/\ \E from \in FromInputs, tid \in ThreadIds :
                           Webhook(r, "message.received", from, tid)
                      /\ r \in hist'.acked)

\* The second event was accepted and acknowledged while the run of the first
\* is suspended on a calendar call
C32_Witness ==
  /\ lastOp.op = "webhook_ok"
  /\ lastOp.run = 2
  /\ 2 \in hist.acked
  /\ InBook(runs[1])

\* C33: the first processed inbound event of a conversation creates its
\* thread record, in state new with the sender as requester and nothing
\* else set; an inbound event of a conversation that has a thread record
\* leaves the thread table as it is.
C33_BootstrapOnce ==
  [][lastOp'.op = "webhook_ok" =>
       IF RowOf(threads, lastOp'.tid) = None
       THEN /\ Len(threads') = Len(threads) + 1
            /\ \A i \in 1..Len(threads) : threads'[i] = threads[i]
            /\ LET row == threads'[Len(threads')]
               IN /\ row.thread_id = lastOp'.tid
                  /\ row.state = "new"
                  /\ row.requester_email = lastOp'.from.email
                  /\ row.requester_name = lastOp'.from.name
                  /\ row.proposed_slots = None
                  /\ row.attendee_email = None
                  /\ row.meeting_title = None
                  /\ row.meeting_duration_minutes = None
                  /\ row.calendar_event_id = None
       ELSE threads' = threads]_vars

\* A second event of a conversation was accepted after the thread had been
\* moved on with a slot list
C33_Witness ==
  /\ lastOp.op = "webhook_ok"
  /\ lastOp.run = 2
  /\ RowOf(threads, lastOp.tid)[1].state = "awaiting_confirmation"
  /\ RowOf(threads, lastOp.tid)[1].proposed_slots # None

\* A book_meeting call of run r was made: executeTool reached the calendar
\* call, or threw before it
BookInvoked(r) ==
  /\ lastOp.run = r
  /\ \/ lastOp.op = "book_start"
     \/ lastOp.op = "tool_error" /\ lastOp.tool = "book_meeting"

BookCompleted(r) ==
  /\ lastOp.run = r
  /\ lastOp.op \in {"book_updated", "book_created"}
  /\ LastRow.state = "booked"

\* C34: when the create call succeeds whenever it is made and the calendar
\* calls return, every book_meeting call eventually completes with the
\* thread in state booked.
C34_BookingCompletes ==
  \A r \in Runs : BookInvoked(r) ~> BookCompleted(r)

\* C35: the event reference stored on a thread is null or an id the calendar
\* confirmed (an update call succeeded on it or a create call returned it);
\* a book_meeting call whose update call was rejected does not store its
\* candidate; and update_thread_state changes neither the event reference
\* nor the attendee email of the thread.
C35_StoredReferenceConfirmed ==
  /\ [](/\ \A i \in 1..Len(threads) :
             \/ threads[i].calendar_event_id = None
             \/ threads[i].calendar_event_id[1] \in hist.confirmed
        /\ (lastOp.op = "book_created" /\ lastOp.call.updFailed) =>
             LastRow.calendar_event_id # lastOp.call.cand)
  /\ [][lastOp'.op = "update_thread_state" =>
          /\ RowOf(threads', lastOp'.p.threadId)[1].calendar_event_id =
               RowOf(threads, lastOp'.p.threadId)[1].calendar_event_id
          /\ RowOf(threads', lastOp'.p.threadId)[1].attendee_email =
               RowOf(threads, lastOp'.p.threadId)[1].attendee_email]_vars

\* update_thread_state ran on a thread that holds the reference a create
\* call returned after the update of a foreign candidate was rejected
C35_Witness ==
  /\ lastOp.op = "update_thread_state"
  /\ "t1" \in hist.updFailed
  /\ RowOf(threads, "t1") # None
  /\ RowOf(threads, "t1")[1].calendar_event_id = Some("g1")
  /\ RowOf(threads, "t1")[1].state # "booked"
  /\ lastOp.p.threadId = "t1"

\* C36: an upsert never turns a non-null event reference, attendee email,
\* title, duration or requester name of a thread into null, and never
\* changes the requester email the row was inserted with.
C36_NonNullStays ==
  (lastOp.op \in StoreWrites /\ lastOp.before # None) =>
    /\ RowBefore.calendar_event_id # None => RowAfter.calendar_event_id # None
    /\ RowBefore.attendee_email # None => RowAfter.attendee_email # None
    /\ RowBefore.meeting_title # None => RowAfter.meeting_title # None
    /\ RowBefore.meeting_duration_minutes # None =>
         RowAfter.meeting_duration_minutes # None
    /\ RowBefore.requester_name # None => RowAfter.requester_name # None
    /\ RowAfter.requester_email = RowBefore.requester_email

\* A booked thread with every field set was written by a call that supplied
\* another requester email and nothing else
C36_Witness ==
  /\ lastOp.op = "store_upsert"
  /\ lastOp.before # None
  /\ lastOp.p.requesterEmail = Some("new@x.org")
  /\ lastOp.p.requesterName = None
  /\ RowBefore.calendar_event_id # None
  /\ RowBefore.meeting_title # None
  /\ RowBefore.meeting_duration_minutes # None
  /\ RowBefore.requester_name # None
  /\ RowAfter.state = "new"
  /\ RowAfter.calendar_event_id = RowBefore.calendar_event_id

\* C37: a webhook payload whose event type is not message.received, or
\* whose sender address contains the agent's own address, is acknowledged
\* as skipped; it creates or changes no thread record and starts no run.
C37_SkippedWebhook ==
  [][(/\ lastOp'.op \in {"webhook_ok", "webhook_skipped"}
      /\ \/ lastOp'.eventType # "message.received"
         \/ includes(toLowerCase(lastOp'.from.email), toLowerCase(AgentEmail)))
     => /\ lastOp'.op = "webhook_skipped"
        /\ threads' = threads
        /\ runs' = runs
        /\ hist' = hist]_vars

\* A message.received event sent from an address that contains the agent's
\* own was skipped while a conversation has its thread and its run
C37_Witness ==
  /\ lastOp.op = "webhook_skipped"
  /\ lastOp.eventType = "message.received"
  /\ lastOp.from.email = "x-ea@agentmail.to"
  /\ Len(threads) = 1
  /\ runs[1].pc = "loop"
  /\ runs[2].pc = "idle"

(* Agent loop: tool results and the end of the loop *)

\* The tool_use blocks of a content, in order
ToolUses(content) == SelectSeq(content, LAMBDA b : b.type = "tool_use")

\* The tool_result blocks answer the tool_use blocks one for one, in order,
\* with the same ids, each carrying the tool's result or an error value
Answers(results, uses) ==
  /\ Len(results) = Len(uses)
  /\ \A k \in 1..Len(results) :
       /\ results[k].type = "tool_result"
       /\ results[k].tool_use_id = uses[k].id
       /\ results[k].content \in
            {JSONstringify([kind |-> "result", tool |-> uses[k].name]),
             JSONstringify([kind |-> "error", tool |-> uses[k].name])}

\* Response k of the conversation is messages[2k]; its results, once the
\* for loop is through, are messages[2k + 1]
Answered(k) ==
  /\ 2 * k + 1 <= Len(agent.messages)
  /\ agent.messages[2 * k + 1].role = "user"
  /\ Answers(agent.messages[2 * k + 1].content, ToolUses(agent.messages[2 * k].content))

\* The for loop is not in the middle of response k
Through(k) == k < Len(agent.stops) \/ agent.pc # "tool"

\* C38, as stated: the tool_use blocks of every response are answered one for
\* one, and the loop ends when the stop reason is not tool_use
C38_EveryToolUseAnswered ==
  /\ \A k \in 1..Len(agent.stops) :
       (Through(k) /\ HasToolUse(agent.messages[2 * k].content)) => Answered(k)
  /\ agent.pc = "done" <=>
       (agent.stops # <<>> /\ agent.stops[Len(agent.stops)] # "tool_use")

\* C38, amended: a tool call that throws does not end the run; the tool_use
\* blocks of every response whose stop reason is tool_use are answered one for
\* one, in order, with the same ids, by a result or an error value, also while
\* the for loop is under way; the loop goes on after each such response and
\* ends at the first response with another stop reason, whose tool_use blocks
\* are not executed
C38_ToolErrorsAnswered ==
  /\ \A k \in 1..Len(agent.stops) :
       /\ (agent.stops[k] = "tool_use" /\ Through(k)) => Answered(k)
       /\ agent.stops[k] # "tool_use" =>
            /\ k = Len(agent.stops)
            /\ Len(agent.messages) = 2 * k
  /\ agent.pc = "tool" =>
       LET content == agent.messages[Len(agent.messages)].content
       IN  /\ agent.i \in 1..Len(content)
           /\ content[agent.i].type = "tool_use"
           /\ Answers(agent.toolResults, ToolUses(SubSeq(content, 1, agent.i - 1)))
  /\ agent.pc = "done" <=>
       (agent.stops # <<>> /\ agent.stops[Len(agent.stops)] # "tool_use")
  /\ agent.pc = "rejected" => Len(agent.messages) = 2 * Len(agent.stops) + 1

\* A response with two tool calls around a text block, the second one to an
\* unknown tool, answered by a result and an error, and the loop going on to
\* a response cut at max_tokens in a tool call, where it ends
C38_Witness ==
  /\ agent.pc = "done"
  /\ agent.stops = <<"tool_use", "max_tokens">>
  /\ Len(ToolUses(agent.messages[2].content)) = 2
  /\ agent.messages[3].content[1].content[2].kind = "result"
  /\ agent.messages[3].content[2].content[2].kind = "error"
  /\ agent.messages[3].content[2].tool_use_id = <<1, 3>>
  /\ HasToolUse(agent.messages[4].content)

====
